---- MODULE Spec2Model ----
(***************************************************************************)
(* Model of the Financial Reasoning Engine of Finance-Clarity              *)
(* (window.AIChatbot, src/ai-chatbot.js): the conversation orchestrator    *)
(* (processMessage, its rate limiter and its external-provider fallback)   *)
(* the goal planner (createFinancialGoal, updateGoalProgress,              *)
(* analyzeGoalAchievability), the snapshot builder (getUserFinancialContext,*)
(* buildFinancialContext), the scenario simulator (extractSimulationParams,*)
(* simulateScenario, handleWhatIfSimulation), the intent classifier        *)
(* (detectIntent, generateSmartResponse), the Safety Filter                *)
(* (applySafeResponseFramework), the alert scan (checkFinancialAlerts) and *)
(* the memory profile (loadUserMemory, clearHistory).                      *)
(*                                                                         *)
(* Conventions.                                                            *)
(*  - Clock values are Date.now() readings restricted to whole seconds and *)
(*    written in seconds, so 60000 ms is 60 and thirty days are 2592000.   *)
(*  - Money amounts are whole rupees.  monthlyRequirement is kept in       *)
(*    hundredths of a rupee (it is the quotient rounded to two decimals),  *)
(*    completionPercentage as the numerator of a fraction over the goal's  *)
(*    targetAmount; comparisons are cross-multiplied, so the arithmetic is *)
(*    exact.                                                               *)
(*  - A text is a sequence of tokens; every token stands for a fixed run   *)
(*    of characters whose length is its field n.                           *)
(*  - An in-flight turn is the record turn; pc = "awaiting" is the         *)
(*    suspension of processMessage at the fetch of callAIProvider.         *)
(***************************************************************************)
EXTENDS Integers, Sequences, FiniteSets, TLC

VARIABLES
    now,                \* Date.now()
    isProcessing,       \* AIChatbot.isProcessing
    rateLimitCount,     \* AIChatbot.rateLimitCount
    rateLimitReset,     \* AIChatbot.rateLimitReset
    aiProviderEnabled,  \* AIChatbot.aiProviderEnabled (with its endpoint)
    dataManager,        \* window.DataManager is defined
    income,             \* DataManager.getTotalIncome()
    expenses,           \* DataManager.getTotalExpenses()
    currentLanguage,    \* AIChatbot.currentLanguage
    userAIMemory,       \* AIChatbot.userAIMemory
    financialGoals,     \* AIChatbot.financialGoals
    storedGoals,        \* localStorage[finance_goals_<uid>]
    chatHistory,        \* AIChatbot.chatHistory
    recentInteractions, \* AIChatbot.recentInteractions
    turn,               \* the processMessage call suspended at the provider
    lastCall,           \* observation: the last completed call and its result
    lastOp,             \* observation: the last direct call of a method and its result
    accepted,           \* observation: times of the messages the limiter let in
    ticks               \* observation: number of clock advances so far

rateVars == <<rateLimitCount, rateLimitReset>>
dataVars == <<dataManager, income, expenses>>
memVars  == <<currentLanguage, userAIMemory>>
goalVars == <<financialGoals, storedGoals>>
histVars == <<chatHistory, recentInteractions>>
vars == <<now, isProcessing, rateLimitCount, rateLimitReset, aiProviderEnabled,
          dataManager, income, expenses, currentLanguage, userAIMemory,
          financialGoals, storedGoals, chatHistory, recentInteractions,
          turn, lastCall, lastOp, accepted, ticks>>

----------------------------------------------------------------------------
(* Program constants *)

RATE_LIMIT_MAX == 10
RATE_WINDOW == 60
MIN_AI_LENGTH == 50
MAX_RESPONSE_LENGTH == 2000
MONTH == 2592000
HISTORY_LIMIT == 20
PROVIDER_TIMEOUT == 10
maxInteractionMemory == 5
ALERT_INTERVAL == 300

(* Bounds of the model *)

MaxTicks == 3
MaxTurns == 2
MaxMonths == 2
MaxGoals == 2
MaxTracked == 1
MaxMoney == 3
MaxTextLen == 2
MaxWindowTurns == 11

----------------------------------------------------------------------------
(* Helpers *)

Min(a, b) == IF a <= b THEN a ELSE b
Max(a, b) == IF a >= b THEN a ELSE b

\* slice(0, n): the oldest n elements
LastN_KeepsOldest(s, n) == IF Len(s) <= n THEN s ELSE SubSeq(s, 1, n)

\* Array.prototype.slice(-n)
LastN(s, n) == IF Len(s) <= n THEN s ELSE SubSeq(s, Len(s) - n + 1, Len(s))

----------------------------------------------------------------------------
(* Texts.  A token is [w |-> phrase, n |-> number of characters].  A token  *)
(* with w = "plain" is a run of n characters containing none of the         *)
(* phrases the filters look for, no full stop and no rupee sign, and not    *)
(* ending in "y"; "frag" is the rest of a token cut by substring(); "ou     *)
(* must" is those seven characters, which make "you must" with a "y"       *)
(* before them.                                                             *)

PhraseLen(w) ==
    CASE w = "sp" -> 1
      [] w = "." -> 1
      [] w = "rupee" -> 1
      [] w = "[" -> 1
      [] w = "..." -> 3
      [] w = "crypto" -> 6
      [] w = "ou must" -> 7
      [] w = "you must" -> 8
      [] w = "You must" -> 8
      [] w = "guaranteed" -> 10
      [] w = "GUARANTEED" -> 10
      [] w = "potentiall" -> 10
      [] w = "potentially" -> 11
      [] w = "investments" -> 11
      [] w = "You may want to" -> 15
      [] w = "you may consider" -> 16
      [] w = "investment advice removed]" -> 26
      [] w = "consult with a financial advisor about " -> 39
      [] w = "note: Based on your data: You have rupee" -> 37
      [] OTHER -> 0

Tok(w) == [w |-> w, n |-> PhraseLen(w)]
Run(n) == [w |-> "plain", n |-> n]

RECURSIVE TextLen(_)
TextLen(t) == IF t = <<>> THEN 0 ELSE Head(t).n + TextLen(Tail(t))

\* String.prototype.substring(0, k)
RECURSIVE Substring(_, _)
Substring(t, k) ==
    IF t = <<>> \/ k <= 0 THEN <<>>
    ELSE IF Head(t).n <= k THEN <<Head(t)>> \o Substring(Tail(t), k - Head(t).n)
    ELSE <<[w |-> "frag", n |-> k]>>

\* String.prototype.trim()
RECURSIVE TrimLeft(_)
TrimLeft(t) == IF t # <<>> /\ Head(t).w = "sp" THEN TrimLeft(Tail(t)) ELSE t
RECURSIVE TrimRight(_)
TrimRight(t) ==
    IF t # <<>> /\ t[Len(t)].w = "sp" THEN TrimRight(SubSeq(t, 1, Len(t) - 1)) ELSE t
TrimText(t) == TrimRight(TrimLeft(t))

HasTok(t, w) == \E i \in DOMAIN t : t[i].w = w

\* a phrase whose last letter makes "you must" with a following "ou must"
EndsInY(tok) == tok.w = "potentially"

\* replace(/you must/..., phrase) where the match lies across two tokens; the
\* matches within one token are those of AIFilterTok and FrameworkTok
ReplaceJoined(t, phrase) ==
    LET joined == {i \in DOMAIN t : /\ i + 1 \in DOMAIN t
                                    /\ EndsInY(t[i])
                                    /\ t[i + 1].w = "ou must"}
    IN IF joined = {} THEN t
       ELSE [i \in DOMAIN t |-> IF i \in joined THEN Tok("potentiall")
                                ELSE IF i - 1 \in joined THEN Tok(phrase)
                                ELSE t[i]]

\* The replacements applyAISafetyFilters makes in one phrase: the investment
\* keywords (any letter case) and the case-sensitive soft-language rules.
AIFilterTok(tok) ==
    CASE tok.w = "crypto" -> <<Tok("["), Tok("investment advice removed]")>>
      [] tok.w = "you must" -> <<Tok("you may consider")>>
      [] tok.w = "guaranteed" -> <<Tok("potentially")>>
      [] OTHER -> <<tok>>

RECURSIVE AIFilterAll(_)
AIFilterAll(t) == IF t = <<>> THEN <<>> ELSE AIFilterTok(Head(t)) \o AIFilterAll(Tail(t))

\* applyAISafetyFilters(response): '' for an empty response, otherwise the
\* replacements ("you must" before "guaranteed"), the cut at 2000 characters
\* and the trim.  The response is bound as a value s before the passes read
\* it.
ApplyAISafetyFilters(t) ==
    LET Filtered(s) ==
            IF s = <<>> THEN <<>>
            ELSE LET filtered == AIFilterAll(ReplaceJoined(s, "you may consider"))
                     limited == IF TextLen(filtered) > MAX_RESPONSE_LENGTH
                                THEN Substring(filtered, MAX_RESPONSE_LENGTH) \o <<Tok("...")>>
                                ELSE filtered
                 IN TrimText(limited)
    IN CHOOSE r \in {Filtered(s) : s \in {t}} : TRUE

\* The case-insensitive replacements of applySafeResponseFramework
FrameworkTok(tok) ==
    CASE tok.w \in {"you must", "You must"} -> Tok("You may want to")
      [] tok.w \in {"guaranteed", "GUARANTEED"} -> Tok("potentially")
      [] OTHER -> tok

RECURSIVE FrameworkAll(_)
FrameworkAll(t) == IF t = <<>> THEN <<>> ELSE <<FrameworkTok(Head(t))>> \o FrameworkAll(Tail(t))

StartsWithInvest(tok) == tok.w \in {"investment advice removed]", "investments"}

\* the rest of a text from its first full stop on
RECURSIVE FromFullStop(_)
FromFullStop(t) ==
    IF t = <<>> \/ Head(t).w = "." THEN t ELSE FromFullStop(Tail(t))

\* replace(/invest[^.]*/gi, 'consult with a financial advisor about investments')
RECURSIVE ReplaceInvest(_)
ReplaceInvest(t) ==
    IF t = <<>> THEN <<>>
    ELSE IF StartsWithInvest(Head(t))
         THEN <<Tok("consult with a financial advisor about "), Tok("investments")>>
              \o ReplaceInvest(FromFullStop(Tail(t)))
         ELSE <<Head(t)>> \o ReplaceInvest(Tail(t))

DefaultPrompt == <<Run(64)>>

\* applySafeResponseFramework(response): the safety filters, then its own
\* replacements in their order, /You must/gi before /guaranteed/gi
ApplySafeResponseFramework(t) ==
    LET Softened(s) == FrameworkAll(ReplaceJoined(s, "You may want to"))
        Safe(softened) == IF \E i \in DOMAIN softened : StartsWithInvest(softened[i])
                          THEN ReplaceInvest(softened)
                          ELSE softened
    IN IF t = <<>> THEN DefaultPrompt
       ELSE CHOOSE r \in {Safe(softened) :
                             softened \in {Softened(s) : s \in {ApplyAISafetyFilters(t)}}} : TRUE

----------------------------------------------------------------------------
(* Rate limiter *)

\* checkRateLimit() letting the count pass the maximum before it refuses
CheckRateLimit_OffByOne(count, reset, t) ==
    LET expired == t > reset
        c == IF expired THEN 0 ELSE count
        r == IF expired THEN t + RATE_WINDOW ELSE reset
    IN IF c > RATE_LIMIT_MAX
       THEN [allowed |-> FALSE, count |-> c, reset |-> r]
       ELSE [allowed |-> TRUE, count |-> c + 1, reset |-> r]

\* checkRateLimit(): the verdict and the limiter's fields after the call
CheckRateLimit(count, reset, t) ==
    LET expired == t > reset
        c == IF expired THEN 0 ELSE count
        r == IF expired THEN t + RATE_WINDOW ELSE reset
    IN IF c >= RATE_LIMIT_MAX
       THEN [allowed |-> FALSE, count |-> c, reset |-> r]
       ELSE [allowed |-> TRUE, count |-> c + 1, reset |-> r]

----------------------------------------------------------------------------
(* Goal planner *)

\* A goal name is a sequence of characters.
Chars == {"T", "t", "R", "r", " "}

\* one character of String.prototype.toLowerCase()
LowerChar(c) == CASE c = "T" -> "t" [] c = "R" -> "r" [] OTHER -> c

ToLowerCase(name) == [i \in DOMAIN name |-> LowerChar(name[i])]

RECURSIVE TrimNameLeft(_)
TrimNameLeft(name) ==
    IF name # <<>> /\ Head(name) = " " THEN TrimNameLeft(Tail(name)) ELSE name
RECURSIVE TrimNameRight(_)
TrimNameRight(name) ==
    IF name # <<>> /\ name[Len(name)] = " "
    THEN TrimNameRight(SubSeq(name, 1, Len(name) - 1)) ELSE name
\* name.trim()
TrimName(name) == TrimNameRight(TrimNameLeft(name))

NoGoal == [id |-> -1, name |-> <<>>, targetAmount |-> 0, durationMonths |-> 0,
           monthlyRequirement |-> 0, createdAt |-> -1, amountSaved |-> 0,
           remainingAmount |-> 0, completionPercentage |-> 0, status |-> "none"]

\* parseFloat((targetAmount / durationMonths).toFixed(2)), in hundredths
MonthlyRequirement(targetAmount, durationMonths) ==
    (200 * targetAmount + durationMonths) \div (2 * durationMonths)

IsOpen(g) == g.status = "active" \/ g.status = "behind"

\* the duplicate search comparing the names as they are written
Duplicate_CaseSensitive(goals, trimmedName) ==
    \E i \in DOMAIN goals : goals[i].name = trimmedName /\ IsOpen(goals[i])

\* the duplicate search of createFinancialGoal
Duplicate(goals, trimmedName) ==
    \E i \in DOMAIN goals :
        /\ ToLowerCase(goals[i].name) = ToLowerCase(trimmedName)
        /\ IsOpen(goals[i])

\* createFinancialGoal(name, targetAmount, durationMonths) at time t:
\* the goal returned (NoGoal for null) and the collection afterwards
CreateFinancialGoal(goals, name, targetAmount, durationMonths, t) ==
    IF name = <<>> \/ targetAmount <= 0 \/ durationMonths <= 0
    THEN [goal |-> NoGoal, goals |-> goals]
    ELSE IF Duplicate(goals, TrimName(name))
    THEN [goal |-> NoGoal, goals |-> goals]
    ELSE LET goal == [id |-> t,
                      name |-> TrimName(name),
                      targetAmount |-> targetAmount,
                      durationMonths |-> durationMonths,
                      monthlyRequirement |-> MonthlyRequirement(targetAmount, durationMonths),
                      createdAt |-> t,
                      amountSaved |-> 0,
                      remainingAmount |-> targetAmount,
                      completionPercentage |-> 0,
                      status |-> "active"]
         IN [goal |-> goal, goals |-> Append(goals, goal)]

\* Math.floor((Date.now() - goal.createdAt) / (1000 * 60 * 60 * 24 * 30))
MonthsElapsed(goal, t) == (t - goal.createdAt) \div MONTH

\* updateGoalProgress(goal) measuring the schedule by the months elapsed
\* without the floor of one month
UpdateGoalProgress_NoFloor(goal, dm, savings, t) ==
    IF ~dm THEN goal
    ELSE LET expectedSaved == goal.monthlyRequirement * MonthsElapsed(goal, t)
             saved == Min(savings, goal.targetAmount)
             pct == Min(100 * goal.targetAmount, saved * 100)
             st == IF pct >= 100 * goal.targetAmount THEN "completed"
                   ELSE IF saved * 100 * 10 < expectedSaved * 8 THEN "behind"
                   ELSE "active"
         IN [goal EXCEPT !.amountSaved = saved,
                         !.remainingAmount = Max(0, goal.targetAmount - saved),
                         !.completionPercentage = pct,
                         !.status = st]

\* updateGoalProgress(goal) never lowering the amount it stored before
UpdateGoalProgress_Ratchet(goal, dm, savings, t) ==
    IF ~dm THEN goal
    ELSE LET expectedSaved == goal.monthlyRequirement * Max(1, MonthsElapsed(goal, t))
             saved == Max(goal.amountSaved, Min(savings, goal.targetAmount))
             pct == Min(100 * goal.targetAmount, saved * 100)
             st == IF pct >= 100 * goal.targetAmount THEN "completed"
                   ELSE IF saved * 100 * 10 < expectedSaved * 8 THEN "behind"
                   ELSE "active"
         IN [goal EXCEPT !.amountSaved = saved,
                         !.remainingAmount = Max(0, goal.targetAmount - saved),
                         !.completionPercentage = pct,
                         !.status = st]

\* updateGoalProgress(goal) at time t; dm: window.DataManager is defined,
\* savings: context.savings.  completionPercentage is the numerator of the
\* percentage over goal.targetAmount.
UpdateGoalProgress(goal, dm, savings, t) ==
    IF ~dm THEN goal
    ELSE LET expectedSaved == goal.monthlyRequirement * Max(1, MonthsElapsed(goal, t))
             saved == Min(savings, goal.targetAmount)
             pct == Min(100 * goal.targetAmount, saved * 100)
             st == IF pct >= 100 * goal.targetAmount THEN "completed"
                   ELSE IF saved * 100 * 10 < expectedSaved * 8 THEN "behind"
                   ELSE "active"
         IN [goal EXCEPT !.amountSaved = saved,
                         !.remainingAmount = Max(0, goal.targetAmount - saved),
                         !.completionPercentage = pct,
                         !.status = st]

\* financialGoals.map(goal => this.updateGoalProgress(goal))
UpdateAllGoals(goals, dm, savings, t) ==
    [i \in DOMAIN goals |-> UpdateGoalProgress(goals[i], dm, savings, t)]

\* activeGoals.forEach(goal => this.updateGoalProgress(goal)) over getActiveGoals()
UpdateOpenGoals(goals, dm, savings, t) ==
    [i \in DOMAIN goals |->
        IF IsOpen(goals[i]) THEN UpdateGoalProgress(goals[i], dm, savings, t) ELSE goals[i]]

\* the index in financialGoals of getActiveGoals()[0], 0 when there is none
FirstOpen(goals) ==
    IF \E i \in DOMAIN goals : IsOpen(goals[i])
    THEN CHOOSE i \in DOMAIN goals :
            IsOpen(goals[i]) /\ \A j \in 1..(i - 1) : ~IsOpen(goals[j])
    ELSE 0

\* _generateReductionSuggestion(shortfall, topExpenses); amounts in hundredths
GenerateReductionSuggestion(shortfall, topExpenses) ==
    IF topExpenses = <<>> THEN [plan |-> "any", first |-> shortfall, rest |-> 0]
    ELSE IF 100 * topExpenses[1] >= shortfall
         THEN [plan |-> "top", first |-> shortfall, rest |-> 0]
         ELSE [plan |-> "top_and_others", first |-> 100 * topExpenses[1],
               rest |-> shortfall - 100 * topExpenses[1]]

NoSuggestion == [plan |-> "none", first |-> 0, rest |-> 0]

\* analyzeGoalAchievability(goal, context) measuring the shortfall against
\* the income instead of the savings
AnalyzeGoalAchievability_IncomeGap(goal, inc, exp, topExpenses) ==
    IF inc = 0
    THEN [achievable |-> FALSE, requiresReduction |-> FALSE, shortfall |-> 0,
          reason |-> "no_income", suggestion |-> NoSuggestion]
    ELSE IF goal.monthlyRequirement > 100 * inc
    THEN [achievable |-> FALSE, requiresReduction |-> FALSE, shortfall |-> 0,
          reason |-> "exceeds_income", suggestion |-> NoSuggestion]
    ELSE IF goal.monthlyRequirement > 100 * (inc - exp)
    THEN LET shortfall == 100 * inc - goal.monthlyRequirement
         IN [achievable |-> TRUE, requiresReduction |-> TRUE, shortfall |-> shortfall,
             reason |-> "reduce_expenses",
             suggestion |-> GenerateReductionSuggestion(shortfall, topExpenses)]
    ELSE [achievable |-> TRUE, requiresReduction |-> FALSE, shortfall |-> 0,
          reason |-> "current_rate", suggestion |-> NoSuggestion]

\* analyzeGoalAchievability(goal, context); shortfall in hundredths
AnalyzeGoalAchievability(goal, inc, exp, topExpenses) ==
    IF inc = 0
    THEN [achievable |-> FALSE, requiresReduction |-> FALSE, shortfall |-> 0,
          reason |-> "no_income", suggestion |-> NoSuggestion]
    ELSE IF goal.monthlyRequirement > 100 * inc
    THEN [achievable |-> FALSE, requiresReduction |-> FALSE, shortfall |-> 0,
          reason |-> "exceeds_income", suggestion |-> NoSuggestion]
    ELSE IF goal.monthlyRequirement > 100 * (inc - exp)
    THEN LET shortfall == goal.monthlyRequirement - 100 * (inc - exp)
         IN [achievable |-> TRUE, requiresReduction |-> TRUE, shortfall |-> shortfall,
             reason |-> "reduce_expenses",
             suggestion |-> GenerateReductionSuggestion(shortfall, topExpenses)]
    ELSE [achievable |-> TRUE, requiresReduction |-> FALSE, shortfall |-> 0,
          reason |-> "current_rate", suggestion |-> NoSuggestion]

----------------------------------------------------------------------------
(* Conversation orchestrator *)

\* A message is described by what the code tests of its text:
\*   blank          !userMessage || userMessage.trim().length === 0
\*   script         "hi" / "ta" when detectLanguage finds that script, else "latin"
\*   complexPattern one of isComplexQuestion's complexPatterns occurs
\*   len, ands      message.length and the number of \band\b matches
\*   report         'report' or 'summary' occurs
\*   intent         the intent the classifier gives it with confidence >= 0.7,
\*                  "OTHER" for the intents that do not touch the goals
\*   name, targetAmount, durationMonths
\*                  what extractGoalFromMessage finds (0: not found)
\*   throws         the local generator throws on it
Msg(id, blank, script, complexPattern, len, ands, report, intent) ==
    [id |-> id, blank |-> blank, script |-> script, complexPattern |-> complexPattern,
     len |-> len, ands |-> ands, report |-> report, intent |-> intent,
     name |-> <<>>, targetAmount |-> 0, durationMonths |-> 0, throws |-> FALSE]

\* isComplexQuestion(message)
IsComplexQuestion(m) ==
    LET hasComplexPattern == m.complexPattern
        isLongQuestion == m.len > 50
        hasMultipleTopics == m.ands > 1
        isReportRequest == m.report
    IN hasComplexPattern \/ (isLongQuestion /\ hasMultipleTopics) \/ isReportRequest

\* detectLanguage(text)
DetectLanguage(m, memory) ==
    CASE m.script = "hi" -> "hi-IN"
      [] m.script = "ta" -> "ta-IN"
      [] OTHER -> memory.languagePreference

\* A response: the text toks, produced by src for message id from the data
\* (inc, exp), rendered in language lang.
Resp(src, id, kind, inc, exp, toks) ==
    [src |-> src, id |-> id, kind |-> kind, inc |-> inc, exp |-> exp,
     toks |-> toks, lang |-> "en-IN"]

Fixed(kind, n) == Resp("fixed", "-", kind, 0, 0, <<Run(n)>>)

EmptyPrompt == Fixed("empty", 45)
StillProcessing == Fixed("busy", 64)
Throttled == Fixed("throttled", 89)
NeedData == Fixed("nodata", 133)
ErrorMessage == Fixed("error", 96)
NoResponse == Fixed("none", 0)

\* processMessage without the isProcessing check
Admission_NoGuard(m, processing, count, reset, t) ==
    IF m.blank THEN [verdict |-> "empty", count |-> count, reset |-> reset]
    ELSE LET rl == CheckRateLimit(count, reset, t)
         IN [verdict |-> IF rl.allowed THEN "accept" ELSE "throttled",
             count |-> rl.count, reset |-> rl.reset]

\* processMessage asking the rate limiter before the isProcessing check
Admission_CountsBusy(m, processing, count, reset, t) ==
    IF m.blank THEN [verdict |-> "empty", count |-> count, reset |-> reset]
    ELSE LET rl == CheckRateLimit(count, reset, t)
         IN IF ~rl.allowed THEN [verdict |-> "throttled", count |-> rl.count, reset |-> rl.reset]
            ELSE [verdict |-> IF processing THEN "busy" ELSE "accept",
                  count |-> rl.count, reset |-> rl.reset]

\* processMessage, lines 441-451: which of the three early returns is taken,
\* and the limiter's fields afterwards
Admission(m, processing, count, reset, t) ==
    IF m.blank THEN [verdict |-> "empty", count |-> count, reset |-> reset]
    ELSE IF processing THEN [verdict |-> "busy", count |-> count, reset |-> reset]
    ELSE LET rl == CheckRateLimit(count, reset, t)
         IN [verdict |-> IF rl.allowed THEN "accept" ELSE "throttled",
             count |-> rl.count, reset |-> rl.reset]

\* processMessage without its finally block
IsProcessingLeftSet == TRUE

\* the finally block of processMessage: this.isProcessing = false
IsProcessingAfterTurn == FALSE

\* translateResponse(text, targetLang)
TranslateResponse(r, lang) == IF lang = "en-IN" THEN r ELSE [r EXCEPT !.lang = lang]

\* handleCreateGoalIntent(question, context): the response kind and the goals
HandleCreateGoalIntent(m, goals, t) ==
    IF m.targetAmount = 0 \/ m.durationMonths = 0
    THEN [kind |-> "need_params", goals |-> goals, saved |-> FALSE]
    ELSE IF \E i \in DOMAIN goals :
               ToLowerCase(goals[i].name) = ToLowerCase(m.name) /\ IsOpen(goals[i])
    THEN [kind |-> "already_exists", goals |-> goals, saved |-> FALSE]
    ELSE LET c == CreateFinancialGoal(goals, m.name, m.targetAmount, m.durationMonths, t)
         IN IF c.goal = NoGoal
            THEN [kind |-> "issue", goals |-> goals, saved |-> FALSE]
            ELSE [kind |-> "created", goals |-> c.goals, saved |-> TRUE]

\* the text of a local answer: a run free of the phrases the filters rewrite
LocalText == <<Run(120)>>

\* generateResponse(question, context) for a message the generator does not
\* throw on: the answer, the goals afterwards and whether they were saved
GenerateResponse(m, goals, inc, exp, t) ==
    LET r(kind) == Resp("local", m.id, kind, inc, exp, ApplySafeResponseFramework(LocalText))
    IN CASE m.intent = "CREATE_GOAL" ->
                LET h == HandleCreateGoalIntent(m, goals, t)
                IN [response |-> r(h.kind), goals |-> h.goals, saved |-> h.saved]
         [] m.intent = "GOAL_PROGRESS" ->
                IF FirstOpen(goals) = 0
                THEN [response |-> r("no_goals"), goals |-> goals, saved |-> FALSE]
                ELSE [response |-> r("progress"),
                      goals |-> UpdateOpenGoals(goals, TRUE, inc - exp, t), saved |-> TRUE]
         [] m.intent = "GOAL_ACHIEVABILITY" ->
                IF FirstOpen(goals) = 0
                THEN [response |-> r("no_goals"), goals |-> goals, saved |-> FALSE]
                ELSE [response |-> r("achievability"),
                      goals |-> [goals EXCEPT ![FirstOpen(goals)] =
                                    UpdateGoalProgress(@, TRUE, inc - exp, t)],
                      saved |-> FALSE]
         [] OTHER -> [response |-> r("answer"), goals |-> goals, saved |-> FALSE]

\* What the fetch of callAIProvider can end in.
Outcome(kind, text) == [kind |-> kind, text |-> text]

\* callAIProvider(message, context) once the fetch has ended in outcome o:
\* [ok |-> FALSE] is null
CallAIProvider(o) ==
    IF o.kind = "ok" /\ o.text # <<>>
    THEN [ok |-> TRUE, text |-> ApplyAISafetyFilters(o.text)]
    ELSE [ok |-> FALSE, text |-> <<>>]

DataNote == <<Tok("note: Based on your data: You have rupee"), Run(60), Tok("."), Run(17), Tok(".")>>

\* mergeAIResponseWithData(aiResponse, context)
MergeAIResponseWithData(m, text, inc, exp) ==
    IF inc > 0 /\ ~HasTok(text, "rupee")
    THEN Resp("ai", m.id, "merged", inc, exp, text \o DataNote)
    ELSE Resp("ai", m.id, "plain", 0, 0, text)

\* generateAIResponse taking the provider's answer from 50 characters on
ChooseResponse_AtLeast(m, ai, local, inc, exp) ==
    IF ai.ok /\ ai.text # <<>> /\ TextLen(ai.text) >= MIN_AI_LENGTH
    THEN MergeAIResponseWithData(m, ai.text, inc, exp)
    ELSE local

\* generateAIResponse(message, context), steps 4 and 5: the answer chosen
\* once callAIProvider has returned ai
ChooseResponse(m, ai, local, inc, exp) ==
    IF ai.ok /\ ai.text # <<>> /\ TextLen(ai.text) > MIN_AI_LENGTH
    THEN MergeAIResponseWithData(m, ai.text, inc, exp)
    ELSE local

\* processMessage, lines 485-518: the answer returned and the two windows
Deliver(m, response, lang, history, recent, t) ==
    LET recent1 == Append(recent, [question |-> m.id, timestamp |-> t])
        final == [TranslateResponse(response, lang) EXCEPT
                     !.toks = ApplySafeResponseFramework(@)]
        history1 == history \o <<[role |-> "user", message |-> m.id, timestamp |-> t],
                                 [role |-> "assistant", message |-> m.id, timestamp |-> t]>>
    IN [response |-> final,
        recentInteractions |-> LastN(recent1, maxInteractionMemory),
        chatHistory |-> LastN(history1, HISTORY_LIMIT)]

NoTurn == [pc |-> "idle", m |-> Msg("-", TRUE, "latin", FALSE, 0, 0, FALSE, "OTHER"),
           local |-> NoResponse, inc |-> 0, exp |-> 0, started |-> 0]

\* A completed processMessage call: the message, how it ended (verdict), how
\* the provider was involved (route) and what it sent (provided), the answer
\* returned, the local generator's answer and the language of delivery.
Call(m, verdict, route, provided, response, local, lang) ==
    [m |-> m.id, verdict |-> verdict, route |-> route, provided |-> provided,
     response |-> response, local |-> local, lang |-> lang]

NoAnalysis == [achievable |-> FALSE, requiresReduction |-> FALSE, shortfall |-> 0,
               reason |-> "none", suggestion |-> NoSuggestion]

\* A goal-planner call: its arguments (name, targetAmount, durationMonths for
\* a creation, index for a call on financialGoals[index]), the records and
\* the months elapsed it read, and what it returned (goal, analysis).
Op(op, name, targetAmount, durationMonths, index, inc, exp, months, goal, analysis) ==
    [op |-> op, name |-> name, targetAmount |-> targetAmount,
     durationMonths |-> durationMonths, index |-> index, inc |-> inc, exp |-> exp,
     months |-> months, goal |-> goal, analysis |-> analysis]

NoOp == Op("none", <<>>, 0, 0, 0, 0, 0, 0, NoGoal, NoAnalysis)

----------------------------------------------------------------------------
(* Snapshot builder *)

\* a JavaScript value that is a number
Num(n) == [type |-> "number", n |-> n]

\* Number.prototype.toFixed(1) of (num / den) * 100 for den > 0, in tenths:
\* the nearest tenth, a tie going away from zero
ToFixed1(num, den) ==
    LET a == IF num < 0 THEN -num ELSE num
        r == (2000 * a + den) \div (2 * den)
    IN IF num < 0 THEN -r ELSE r

\* DataManager.getTotalFlexibleSpending(): the sum of the four categories
GetTotalFlexibleSpending(dm) ==
    dm.flexibleSpending.food + dm.flexibleSpending.travel
        + dm.flexibleSpending.shopping + dm.flexibleSpending.miscellaneous

\* DataManager.getTotalExpenses(): fixed plus flexible
GetTotalExpenses(dm) == dm.fixedExpenses + GetTotalFlexibleSpending(dm)

\* getUserFinancialContext(): the totals of the records; flexibleSpending is
\* the TOTAL of the flexible categories, a number, and flexibleData the
\* categories themselves
GetUserFinancialContext(dm) ==
    [income |-> dm.income,
     expenses |-> GetTotalExpenses(dm),
     savings |-> dm.income - GetTotalExpenses(dm),
     fixedExpenses |-> dm.fixedExpenses,
     flexibleSpending |-> Num(GetTotalFlexibleSpending(dm)),
     flexibleData |-> dm.flexibleSpending]

\* the health classification of buildFinancialContext: expenseRatio is
\* 100 * expenses / income and savingsRate 100 * (income - expenses) / income
\* when income > 0, both 0 otherwise; the comparisons are made on the exact
\* quotients (n / d with d > 0), which the floating-point quotients of the
\* amounts below 2^31 order the same way against these thresholds
FinancialHealth_HealthyBelow70(inc, exp) ==
    LET d == IF inc > 0 THEN inc ELSE 1
        expenseRatio == IF inc > 0 THEN 100 * exp ELSE 0
        savingsRate == IF inc > 0 THEN 100 * (inc - exp) ELSE 0
    IN IF exp > inc THEN "Needs Attention"
       ELSE IF expenseRatio > 85 * d THEN "Needs Attention"
       ELSE IF expenseRatio < 70 * d /\ savingsRate > 20 * d THEN "Healthy"
       ELSE IF expenseRatio < 70 * d /\ savingsRate > 10 * d THEN "Moderate"
       ELSE IF expenseRatio >= 70 * d \/ savingsRate < 10 * d THEN "Needs Attention"
       ELSE "Moderate"

FinancialHealth_ModerateBelow85(inc, exp) ==
    LET d == IF inc > 0 THEN inc ELSE 1
        expenseRatio == IF inc > 0 THEN 100 * exp ELSE 0
        savingsRate == IF inc > 0 THEN 100 * (inc - exp) ELSE 0
    IN IF exp > inc THEN "Needs Attention"
       ELSE IF expenseRatio > 85 * d THEN "Needs Attention"
       ELSE IF expenseRatio < 50 * d /\ savingsRate > 20 * d THEN "Healthy"
       ELSE IF expenseRatio < 85 * d /\ savingsRate > 10 * d THEN "Moderate"
       ELSE IF expenseRatio >= 70 * d \/ savingsRate < 10 * d THEN "Needs Attention"
       ELSE "Moderate"

FinancialHealth(inc, exp) ==
    LET d == IF inc > 0 THEN inc ELSE 1
        expenseRatio == IF inc > 0 THEN 100 * exp ELSE 0
        savingsRate == IF inc > 0 THEN 100 * (inc - exp) ELSE 0
    IN IF exp > inc THEN "Needs Attention"
       ELSE IF expenseRatio > 85 * d THEN "Needs Attention"
       ELSE IF expenseRatio < 50 * d /\ savingsRate > 20 * d THEN "Healthy"
       ELSE IF expenseRatio < 70 * d /\ savingsRate > 10 * d THEN "Moderate"
       ELSE IF expenseRatio >= 70 * d \/ savingsRate < 10 * d THEN "Needs Attention"
       ELSE "Moderate"

\* the second format of the classification
HealthStatus(inc, exp) ==
    LET d == IF inc > 0 THEN inc ELSE 1
        expenseRatio == IF inc > 0 THEN 100 * exp ELSE 0
    IN IF exp > inc THEN "RISK"
       ELSE IF expenseRatio > 85 * d THEN "WARNING"
       ELSE IF expenseRatio < 50 * d THEN "GOOD"
       ELSE "MODERATE"

\* buildFinancialContext(baseContext): the base context with the classification and
\* the two ratios, each formatted by toFixed(1) (here in tenths)
BuildFinancialContext(baseContext) ==
    LET inc == baseContext.income
        exp == baseContext.expenses
    IN [income |-> inc,
        expenses |-> exp,
        savings |-> baseContext.savings,
        fixedExpenses |-> baseContext.fixedExpenses,
        flexibleSpending |-> baseContext.flexibleSpending,
        flexibleData |-> baseContext.flexibleData,
        financialHealth |-> FinancialHealth(inc, exp),
        healthStatus |-> HealthStatus(inc, exp),
        expenseRatio |-> IF inc > 0 THEN ToFixed1(exp, inc) ELSE 0,
        savingsRate |-> IF inc > 0 THEN ToFixed1(inc - exp, inc) ELSE 0]

\* the records of the DataManager whose totals are inc and exp: up to
\* MaxMoney of the expenses is food, up to 1 of the rest travel, the
\* remainder fixed
DataManagers(inc, exp) ==
    UNION {{[income |-> inc,
             fixedExpenses |-> exp - f - t,
             flexibleSpending |-> [food |-> f, travel |-> t,
                                   shopping |-> 0, miscellaneous |-> 0]] :
               t \in 0..Min(exp - f, 1)} : f \in 0..Min(exp, MaxMoney)}

----------------------------------------------------------------------------
(* Scenario simulator.  A what-if question is the record of what the       *)
(* patterns of extractSimulationParams see in it: numbers, the number      *)
(* mentions in their order, each [value, unit] with unit the text that     *)
(* follows the digits ("k", "lakh", "%", "rupees" or "none"), and words,   *)
(* the keywords the question includes.                                     *)

Question(numbers, words) == [numbers |-> numbers, words |-> words]

\* the index of the first mention whose unit is in units, 0 if there is none
RECURSIVE FirstMention(_, _, _)
FirstMention(numbers, units, i) ==
    IF i > Len(numbers) THEN 0
    ELSE IF numbers[i].unit \in units THEN i
    ELSE FirstMention(numbers, units, i + 1)

ScaleUnits == {"lakh", "crore", "thousand", "k"}

Scale(unit) ==
    CASE unit = "lakh" -> 100000
      [] unit = "crore" -> 10000000
      [] unit \in {"thousand", "k"} -> 1000
      [] OTHER -> 1

NullParams == [isNull |-> TRUE]

\* extractSimulationParams(question).  amount is that of the first pattern
\* that matches: a number with a scale unit, else the first number of the
\* question whatever follows it; the third pattern (a number followed by
\* rupees) matches only where the second does.  percentage is the first
\* number followed by "%".  0 stands for a missing amount or percentage:
\* the code reads both only through ||.
ExtractSimulationParams(question) ==
    LET numbers == question.numbers
        q == question.words
        scaled == FirstMention(numbers, ScaleUnits, 1)
        amount == IF scaled # 0 THEN numbers[scaled].value * Scale(numbers[scaled].unit)
                  ELSE IF numbers # <<>> THEN numbers[1].value
                  ELSE 0
        pct == FirstMention(numbers, {"%"}, 1)
        percentage == IF pct # 0 THEN numbers[pct].value ELSE 0
        type == IF q \cap {"income", "salary", "earn"} # {} THEN "income_change"
                ELSE IF q \cap {"rent", "expense", "spending"} # {} THEN "expense_change"
                ELSE IF q \cap {"food", "dining", "travel", "transport", "shopping",
                                "miscellaneous", "misc"} # {} THEN "category_change"
                ELSE "none"
        category == IF type # "category_change" THEN "none"
                    ELSE IF q \cap {"food", "dining"} # {} THEN "Food & Dining"
                    ELSE IF q \cap {"travel", "transport"} # {} THEN "Travel & Transport"
                    ELSE IF "shopping" \in q THEN "Shopping"
                    ELSE "Miscellaneous"
        direction == IF q \cap {"increase", "raise", "more", "add"} # {} THEN "increase"
                     ELSE IF q \cap {"decrease", "reduce", "less", "cut", "lower"} # {}
                          THEN "decrease"
                     ELSE "none"
    IN IF amount # 0 \/ percentage # 0
       THEN [isNull |-> FALSE, type |-> type, amount |-> amount, category |-> category,
             percentage |-> percentage, direction |-> direction]
       ELSE NullParams

\* categoryMap of simulateScenario
CategoryKey(category) ==
    CASE category = "Food & Dining" -> "food"
      [] category = "Travel & Transport" -> "travel"
      [] category = "Shopping" -> "shopping"
      [] category = "Miscellaneous" -> "miscellaneous"

\* amount || (percentage ? current * percentage / 100 : 0); the quotient is
\* whole for the amounts and percentages of the inputs
Change(params, current) ==
    IF params.amount # 0 THEN params.amount
    ELSE IF params.percentage # 0 THEN (current * params.percentage) \div 100
    ELSE 0

Apply(params, current) ==
    IF params.direction = "increase" THEN current + Change(params, current)
    ELSE Max(0, current - Change(params, current))

\* simulated.flexibleSpending[catKey]: a property read on a number finds
\* nothing, and undefined is falsy like 0
CategoryAmount(flexibleSpending, catKey) ==
    IF flexibleSpending.type = "object" THEN flexibleSpending.fields[catKey] ELSE 0

NullSimulation == [isNull |-> TRUE]

\* the fields simulateScenario assigns after its deep copy of baseContext
\* (JSON.parse(JSON.stringify(baseContext)): every other field of the copy
\* is that of baseContext)
Simulated(baseContext, params) ==
    LET fs == baseContext.flexibleSpending
        catKey == CategoryKey(params.category)
        inCategory == /\ params.type = "category_change"
                      /\ params.category # "none"
                      /\ fs # Num(0)
                      /\ CategoryAmount(fs, catKey) # 0
        flexibleSpending ==
            IF inCategory
            THEN [fs EXCEPT !.fields[catKey] = Apply(params, CategoryAmount(fs, catKey))]
            ELSE fs
        inc == IF params.type = "income_change" THEN Apply(params, baseContext.income)
                  ELSE baseContext.income
        exp ==
            IF params.type = "expense_change" THEN Apply(params, baseContext.expenses)
            ELSE IF inCategory
                 THEN baseContext.fixedExpenses
                        + flexibleSpending.fields.food + flexibleSpending.fields.travel
                        + flexibleSpending.fields.shopping
                        + flexibleSpending.fields.miscellaneous
            ELSE baseContext.expenses
    IN [baseContext EXCEPT !.income = inc,
                           !.expenses = exp,
                           !.flexibleSpending = flexibleSpending,
                           !.savings = inc - exp,
                           !.savingsRate = IF inc > 0
                                           THEN ToFixed1(inc - exp, inc)
                                           ELSE 0]

\* simulateScenario without its deep copy: the assignments reach the caller's
\* object
SimulateScenario_InPlace(baseContext, params) ==
    IF params = NullParams
    THEN [baseContext |-> baseContext, simulated |-> NullSimulation]
    ELSE [baseContext |-> Simulated(baseContext, params),
          simulated |-> Simulated(baseContext, params)]

\* simulateScenario(baseContext, params): the caller's object after the call
\* and the value returned
SimulateScenario(baseContext, params) ==
    IF params = NullParams
    THEN [baseContext |-> baseContext, simulated |-> NullSimulation]
    ELSE [baseContext |-> baseContext, simulated |-> Simulated(baseContext, params)]

\* handleWhatIfSimulation(question, context) for a context with data: the
\* destructuring { simIncome, simExpenses, simSavings, simSavingsRate } reads
\* fields of those names, and a method call on a field that is missing
\* throws a TypeError, which the catch block answers
HandleWhatIfSimulation(question, context) ==
    LET params == ExtractSimulationParams(question)
        simulated == SimulateScenario(context, params).simulated
        has(field) == field \in DOMAIN simulated
    IN IF params = NullParams THEN [kind |-> "examples"]
       ELSE IF simulated = NullSimulation THEN [kind |-> "could_not_process"]
       ELSE IF ~(has("simIncome") /\ has("simExpenses") /\ has("simSavings"))
            THEN [kind |-> "issue"]
       ELSE [kind |-> "results",
             income |-> simulated.simIncome,
             expenses |-> simulated.simExpenses,
             savings |-> simulated.simSavings,
             incomeChange |-> simulated.simIncome - context.income,
             expenseChange |-> simulated.simExpenses - context.expenses,
             savingsChange |-> simulated.simSavings - context.savings]

----------------------------------------------------------------------------
(* Intent classifier.  The question is the record of the scenario          *)
(* simulator; its words are all the key phrases of detectIntent that the   *)
(* lower-cased question includes.  A confidence is in hundredths.          *)

Intent(type, confidence) == [type |-> type, confidence |-> confidence]

\* the else-if chain of detectIntent: the first rule that matches
RuleIntent(question) ==
    LET q(phrases) == question.words \cap phrases # {}
    IN IF q({"save more", "increase savings", "improve savings", "how can i save",
             "ways to save"}) /\ q({"how", "what", "suggest"})
          THEN Intent("SAVE_MORE", 90)
       ELSE IF q({"reduce", "cut", "lower", "decrease"}) /\ q({"expense", "spending", "cost"})
          THEN Intent("CUT_EXPENSES", 85)
       ELSE IF q({"highest", "largest", "biggest", "top"})
                  /\ q({"expense", "spending", "category"})
          THEN Intent("HIGHEST_EXPENSE", 90)
       ELSE IF q({"category", "spending by", "breakdown"})
                  \/ (q({"how much"}) /\ q({"food", "travel", "shopping"}))
          THEN Intent("CATEGORY_ANALYSIS", 85)
       ELSE IF q({"monthly report", "monthly summary", "give me my report",
                  "generate report", "month overview"})
          THEN Intent("MONTHLY_SUMMARY", 95)
       ELSE IF q({"saving", "save"}) /\ q({"how much", "amount", "rate"})
          THEN Intent("SAVINGS_ADVICE", 85)
       ELSE IF q({"expense", "spending"}) /\ q({"analyze", "where", "breakdown"})
          THEN Intent("EXPENSE_ANALYSIS", 80)
       ELSE IF q({"budget", "optimize", "improve"}) /\ q({"how", "suggest"})
          THEN Intent("BUDGET_OPTIMIZATION", 80)
       ELSE IF q({"trend", "compare", "change"})
                  \/ (q({"this month"}) /\ q({"last month", "previous"}))
          THEN Intent("TREND_ANALYSIS", 85)
       ELSE IF q({"overspend", "where am i"})
                  \/ (q({"am i"}) /\ q({"spending too much", "over budget"}))
          THEN Intent("OVERSpending_CHECK", 90)
       ELSE IF q({"saving", "save"})
                  /\ q({"analysis", "analyze", "breakdown", "how am i doing", "savings health"})
          THEN Intent("SAVINGS_ANALYSIS", 88)
       ELSE IF q({"risk", "risky", "safe", "danger"}) /\ q({"spending", "expense", "budget"})
          THEN Intent("SPENDING_RISK", 87)
       ELSE IF q({"budget", "financial health", "how am i"})
                  /\ q({"health", "status", "doing", "good"})
          THEN Intent("BUDGET_HEALTH", 86)
       ELSE IF q({"reduce", "cut", "lower", "minimize"}) /\ q({"cost", "spending", "expense"})
                  /\ ~q({"category"})
          THEN Intent("COST_REDUCTION", 85)
       ELSE IF q({"financial health", "health score", "how am i doing"})
                  /\ q({"what", "score", "how"})
          THEN Intent("FINANCIAL_HEALTH_SCORE", 92)
       ELSE IF q({"predict", "forecast", "will i", "end of month"})
                  /\ q({"spending", "budget", "saving"})
          THEN Intent("PREDICTIVE_INSIGHTS", 88)
       ELSE IF q({"what should i", "specific advice", "actionable"})
                  /\ q({"do", "reduce", "improve"})
          THEN Intent("ACTIONABLE_ADVICE", 85)
       ELSE IF q({"create", "set", "add", "new"})
                  /\ (q({"goal", "target"}) \/ (q({"save"}) /\ q({"for"})))
          THEN Intent("CREATE_GOAL", 90)
       ELSE IF q({"goal", "target"}) /\ q({"progress", "status", "how is", "how am i"})
          THEN Intent("GOAL_PROGRESS", 88)
       ELSE IF q({"can i", "will i", "reach", "achieve"}) /\ q({"goal", "target"})
          THEN Intent("GOAL_ACHIEVABILITY", 87)
       ELSE IF q({"adjust", "modify", "change", "update"}) /\ q({"goal", "target", "plan"})
          THEN Intent("ADJUST_GOAL", 86)
       ELSE Intent("GENERAL_ADVICE", 50)

\* detectIntent with the follow-up boost given after any last topic
DetectIntent_BoostAnyTopic(question, convContext) ==
    LET q(phrases) == question.words \cap phrases # {}
        intent == RuleIntent(question)
    IN IF /\ convContext.lastTopic # "null"
          /\ intent.confidence < 70
          /\ q({"what", "how", "which"})
          /\ q({"save", "reduce"})
       THEN [intent EXCEPT !.confidence = Min(90, @ + 20)]
       ELSE intent

\* detectIntent(question, convContext): the rule, then the context-aware
\* refinement
DetectIntent(question, convContext) ==
    LET q(phrases) == question.words \cap phrases # {}
        intent == RuleIntent(question)
    IN IF /\ convContext.lastTopic # "null"
          /\ intent.confidence < 70
          /\ q({"what", "how", "which"})
          /\ convContext.lastTopic = "savings"
          /\ q({"save", "reduce"})
       THEN [intent EXCEPT !.confidence = Min(90, @ + 20)]
       ELSE intent

\* the intent types generateSmartResponse or the registry of
\* initResponseGenerators has a generator for
GeneratorTypes ==
    {"SAVE_MORE", "CUT_EXPENSES", "HIGHEST_EXPENSE", "CATEGORY_ANALYSIS", "MONTHLY_SUMMARY",
     "SAVINGS_ADVICE", "EXPENSE_ANALYSIS", "BUDGET_OPTIMIZATION", "TREND_ANALYSIS",
     "OVERSpending_CHECK", "SAVINGS_ANALYSIS", "SPENDING_RISK", "BUDGET_HEALTH",
     "COST_REDUCTION", "FINANCIAL_HEALTH_SCORE", "PREDICTIVE_INSIGHTS", "ACTIONABLE_ADVICE",
     "CREATE_GOAL", "GOAL_PROGRESS", "GOAL_ACHIEVABILITY", "ADJUST_GOAL",
     "WHAT_IF_SIMULATION", "GOAL_FEASIBILITY_CHECK", "RISK_DETECTION", "PERSONALIZED_ADVICE"}

\* the switch of generateSmartResponse: generated is what the generator of
\* the type returns, "text" or "null" (it found nothing to say, or threw);
\* a type without a generator has null from callResponseGenerator
IntentGenerator(type, generated) ==
    IF type \in GeneratorTypes THEN generated ELSE "null"

\* generateSmartResponse without its confidence test
GenerateSmartResponse_NoThreshold(intent, generated) ==
    IntentGenerator(intent.type, generated)

\* generateSmartResponse(question, intent, enhancedContext)
GenerateSmartResponse(intent, generated) ==
    IF intent.confidence < 70 THEN "null"
    ELSE IntentGenerator(intent.type, generated)

\* the head of generateResponse: the classified intent and where the answer
\* comes from, an intent-specific generator or the keyword fallback chain
AnswerSource(question, convContext, generated) ==
    LET intent == DetectIntent(question, convContext)
        smartResponse == IF intent.confidence >= 70
                         THEN GenerateSmartResponse(intent, generated)
                         ELSE "null"
    IN [intent |-> intent,
        source |-> IF smartResponse # "null" THEN "intent" ELSE "keyword"]

----------------------------------------------------------------------------
(* Alert scan.  The memory profile is [languagePreference, lastAlertCheck,  *)
(* activeAlerts]; lastAlertCheck is NeverChecked for null, activeAlerts the *)
(* alert types in the order of their checks, as getActiveAlerts() reads     *)
(* them (none for an absent slot).                                          *)

NeverChecked == -1

DefaultMemory ==
    [languagePreference |-> "en-IN", lastAlertCheck |-> NeverChecked, activeAlerts |-> <<>>]

\* getUserFinancialContext() without a DataManager
NullContext == [isNull |-> TRUE]

RECURSIVE SumSeq(_)
SumSeq(s) == IF s = <<>> THEN 0 ELSE Head(s) + SumSeq(Tail(s))

\* Alert 3: monthlyIncomes are the incomes of monthlyData in the order of
\* its sorted month keys; over the last three of at least two months,
\* stdDev / avgIncome > 0.3 with avgIncome = S / n and variance
\* (n * Q - S * S) / (n * n), compared exactly
IncomeUnstable(monthlyIncomes) ==
    LET incomes == LastN(monthlyIncomes, 3)
        n == Len(incomes)
        S == SumSeq(incomes)
        Q == SumSeq([i \in DOMAIN incomes |-> incomes[i] * incomes[i]])
    IN /\ Len(monthlyIncomes) >= 2
       /\ S > 0
       /\ 100 * (n * Q - S * S) > 9 * S * S

\* the checks of checkFinancialAlerts on a context: rate is
\* parseFloat(savingsRate || 0) in tenths of a percent, 0 for a context
\* that has no savingsRate; expenseRatio > 85 is compared exactly
FinancialAlerts(context, monthlyIncomes) ==
    LET rate == IF "savingsRate" \in DOMAIN context THEN context.savingsRate ELSE 0
        Raised(type) ==
            CASE type = "overspending" -> context.expenses > context.income
              [] type = "low_savings" -> /\ context.income > 0
                                         /\ rate < 100
                                         /\ context.savings > 0
              [] type = "income_instability" -> IncomeUnstable(monthlyIncomes)
              [] type = "high_expense_ratio" -> /\ 100 * context.expenses > 85 * context.income
                                                /\ context.income > 0
    IN SelectSeq(<<"overspending", "low_savings", "income_instability",
                   "high_expense_ratio">>, Raised)

\* checkFinancialAlerts(): the alerts returned and the memory profile
\* afterwards; without a context it returns before the profile is written
CheckFinancialAlerts(context, monthlyIncomes, memory, t) ==
    IF context = NullContext THEN [alerts |-> <<>>, memory |-> memory]
    ELSE LET alerts == FinancialAlerts(context, monthlyIncomes)
         IN [alerts |-> alerts,
             memory |-> [memory EXCEPT !.lastAlertCheck = t, !.activeAlerts = alerts]]

----------------------------------------------------------------------------
(* Operations *)

\* processMessage(userMessage), up to its return or to its suspension at
\* the fetch of callAIProvider
ProcessMessage(m) ==
    LET adm == Admission(m, isProcessing, rateLimitCount, rateLimitReset, now)
    IN
    /\ rateLimitCount' = adm.count
    /\ rateLimitReset' = adm.reset
    /\ UNCHANGED <<now, ticks, aiProviderEnabled, dataVars, lastOp>>
    /\ IF adm.verdict # "accept"
       THEN /\ lastCall' = Call(m, adm.verdict, "none", <<>>,
                                CASE adm.verdict = "empty" -> EmptyPrompt
                                  [] adm.verdict = "busy" -> StillProcessing
                                  [] OTHER -> Throttled,
                                NoResponse, currentLanguage)
            /\ UNCHANGED <<isProcessing, memVars, goalVars, histVars, turn, accepted>>
       ELSE
       /\ accepted' = Append(accepted, now)
       /\ IF ~dataManager
          THEN /\ lastCall' = Call(m, "nodata", "none", <<>>, NeedData, NoResponse, currentLanguage)
               /\ isProcessing' = IsProcessingAfterTurn
               /\ UNCHANGED <<memVars, goalVars, histVars, turn>>
          ELSE
          LET lang == DetectLanguage(m, userAIMemory)
              goals1 == UpdateAllGoals(financialGoals, TRUE, income - expenses, now)
              stored1 == IF Len(financialGoals) > 0 THEN goals1 ELSE storedGoals
              gen == GenerateResponse(m, goals1, income, expenses, now)
          IN
          /\ currentLanguage' = lang
          /\ userAIMemory' = IF lang # currentLanguage
                             THEN [userAIMemory EXCEPT !.languagePreference = lang]
                             ELSE userAIMemory
          /\ IF m.throws
             THEN /\ financialGoals' = goals1
                  /\ storedGoals' = stored1
                  /\ lastCall' = Call(m, "error", "none", <<>>, ErrorMessage, NoResponse, lang)
                  /\ isProcessing' = IsProcessingAfterTurn
                  /\ UNCHANGED <<histVars, turn>>
             ELSE
             /\ financialGoals' = gen.goals
             /\ storedGoals' = IF gen.saved THEN gen.goals ELSE stored1
             /\ IF IsComplexQuestion(m) /\ aiProviderEnabled
                THEN /\ turn' = [pc |-> "awaiting", m |-> m, local |-> gen.response,
                                 inc |-> income, exp |-> expenses, started |-> now]
                     /\ isProcessing' = TRUE
                     /\ UNCHANGED <<histVars, lastCall>>
                ELSE LET d == Deliver(m, gen.response, lang, chatHistory,
                                      recentInteractions, now)
                     IN /\ chatHistory' = d.chatHistory
                        /\ recentInteractions' = d.recentInteractions
                        /\ lastCall' = Call(m, "answered",
                                            IF IsComplexQuestion(m) THEN "disabled" ELSE "simple",
                                            <<>>, d.response, gen.response, lang)
                        /\ isProcessing' = IsProcessingAfterTurn
                        /\ turn' = NoTurn

\* the fetch of callAIProvider ends in outcome o and the suspended
\* processMessage runs to its return
ProviderReturns(o) ==
    /\ turn.pc = "awaiting"
    /\ o.kind = "timeout" => now >= turn.started + PROVIDER_TIMEOUT
    /\ LET chosen == ChooseResponse(turn.m, CallAIProvider(o), turn.local, turn.inc, turn.exp)
           d == Deliver(turn.m, chosen, currentLanguage, chatHistory, recentInteractions, now)
       IN /\ chatHistory' = d.chatHistory
          /\ recentInteractions' = d.recentInteractions
          /\ lastCall' = Call(turn.m, "answered", o.kind, o.text, d.response, turn.local,
                              currentLanguage)
    /\ isProcessing' = IsProcessingAfterTurn
    /\ turn' = NoTurn
    /\ UNCHANGED <<now, ticks, rateVars, aiProviderEnabled, dataVars, memVars, goalVars,
                   lastOp, accepted>>

\* clearHistory()
ClearHistory ==
    /\ chatHistory' = <<>>
    /\ recentInteractions' = <<>>
    /\ UNCHANGED <<now, ticks, isProcessing, rateVars, aiProviderEnabled, dataVars,
                   memVars, goalVars, turn, lastCall, lastOp, accepted>>

\* the clock advances by d
Tick(d) ==
    /\ ticks < MaxTicks
    /\ ticks' = ticks + 1
    /\ now' = now + d
    /\ UNCHANGED <<isProcessing, rateVars, aiProviderEnabled, dataVars, memVars,
                   goalVars, histVars, turn, lastCall, lastOp, accepted>>

\* thirty days pass
MonthPasses ==
    /\ ticks < MaxMonths
    /\ ticks' = ticks + 1
    /\ now' = now + MONTH
    /\ UNCHANGED <<isProcessing, rateVars, aiProviderEnabled, dataVars, memVars,
                   goalVars, histVars, turn, lastCall, lastOp, accepted>>

\* the user's records change: DataManager now totals inc and exp
SetFinance(inc, exp) ==
    /\ dataManager
    /\ <<inc, exp>> # <<income, expenses>>
    /\ income' = inc
    /\ expenses' = exp
    /\ UNCHANGED <<now, ticks, isProcessing, rateVars, aiProviderEnabled, dataManager,
                   memVars, goalVars, histVars, turn, lastCall, lastOp, accepted>>

\* createFinancialGoal(name, targetAmount, durationMonths) with saveFinancialGoals
CreateGoal(name, targetAmount, durationMonths) ==
    LET c == CreateFinancialGoal(financialGoals, name, targetAmount, durationMonths, now)
    IN /\ financialGoals' = c.goals
       /\ storedGoals' = IF c.goal = NoGoal THEN storedGoals ELSE c.goals
       /\ lastOp' = Op("create", name, targetAmount, durationMonths, 0, 0, 0, 0, c.goal,
                       NoAnalysis)
       /\ UNCHANGED <<now, ticks, isProcessing, rateVars, aiProviderEnabled, dataVars,
                      memVars, histVars, turn, lastCall, accepted>>

\* updateGoalProgress(financialGoals[i]): the goal object is updated in place
RecomputeGoal(i) ==
    /\ i \in DOMAIN financialGoals
    /\ LET g == UpdateGoalProgress(financialGoals[i], dataManager, income - expenses, now)
       IN /\ financialGoals' = [financialGoals EXCEPT ![i] = g]
          /\ lastOp' = Op("update", g.name, 0, 0, i, income, expenses,
                          MonthsElapsed(financialGoals[i], now), g, NoAnalysis)
    /\ UNCHANGED <<now, ticks, isProcessing, rateVars, aiProviderEnabled, dataVars,
                   memVars, storedGoals, histVars, turn, lastCall, accepted>>

\* enhanceContextWithMemory(baseContext): every goal is recomputed and the
\* collection saved
EnhanceContextWithMemory ==
    /\ dataManager
    /\ Len(financialGoals) > 0
    /\ financialGoals' = UpdateAllGoals(financialGoals, dataManager, income - expenses, now)
    /\ storedGoals' = financialGoals'
    /\ UNCHANGED <<now, ticks, isProcessing, rateVars, aiProviderEnabled, dataVars,
                   memVars, histVars, turn, lastCall, lastOp, accepted>>

\* generateResponse(question, context) for a goal question: handleCreateGoalIntent,
\* generateGoalProgressResponse or generateGoalAchievabilityResponse
GenerateGoalResponse(m) ==
    /\ dataManager
    /\ LET gen == GenerateResponse(m, financialGoals, income, expenses, now)
       IN /\ financialGoals' = gen.goals
          /\ storedGoals' = IF gen.saved THEN gen.goals ELSE storedGoals
    /\ UNCHANGED <<now, ticks, isProcessing, rateVars, aiProviderEnabled, dataVars,
                   memVars, histVars, turn, lastCall, lastOp, accepted>>

\* analyzeGoalAchievability(financialGoals[i], context), the context built
\* from the live records with top expense categories topExpenses
AnalyzeGoal(i, topExpenses) ==
    /\ i \in DOMAIN financialGoals
    /\ dataManager
    /\ lastOp' = Op("analyze", financialGoals[i].name, 0, 0, i, income, expenses, 0,
                    financialGoals[i],
                    AnalyzeGoalAchievability(financialGoals[i], income, expenses, topExpenses))
    /\ UNCHANGED <<now, ticks, isProcessing, rateVars, aiProviderEnabled, dataVars,
                   memVars, goalVars, histVars, turn, lastCall, accepted>>

\* buildFinancialContext(getUserFinancialContext()) over the records of the
\* DataManager
BuildContext ==
    /\ dataManager
    /\ \E dm \in DataManagers(income, expenses) :
          lastOp' = [op |-> "build", dm |-> dm, context |-> BuildFinancialContext(GetUserFinancialContext(dm))]
    /\ UNCHANGED <<now, ticks, isProcessing, rateVars, aiProviderEnabled, dataVars,
                   memVars, goalVars, histVars, turn, lastCall, accepted>>

\* handleWhatIfSimulation(question, enhancedContext) with the context that
\* generateResponse builds, and the simulateScenario call it makes
WhatIfSimulation(question) ==
    /\ dataManager
    /\ \E dm \in DataManagers(income, expenses) :
          LET context == BuildFinancialContext(GetUserFinancialContext(dm))
              params == ExtractSimulationParams(question)
          IN lastOp' = [op |-> "whatif", question |-> question, context |-> context,
                        params |-> params,
                        call |-> SimulateScenario(context, params),
                        response |-> HandleWhatIfSimulation(question, context)]
    /\ UNCHANGED <<now, ticks, isProcessing, rateVars, aiProviderEnabled, dataVars,
                   memVars, goalVars, histVars, turn, lastCall, accepted>>

\* generateResponse(question, context) up to the choice between the intent
\* generator and the keyword fallback chain
Respond(question, convContext, generated) ==
    /\ dataManager
    /\ lastOp' = [op |-> "respond", question |-> question, convContext |-> convContext,
                  generated |-> generated,
                  answer |-> AnswerSource(question, convContext, generated)]
    /\ UNCHANGED <<now, ticks, isProcessing, rateVars, aiProviderEnabled, dataVars,
                   memVars, goalVars, histVars, turn, lastCall, accepted>>

\* generateSmartResponse(question, intent, enhancedContext) called with an
\* intent
SmartResponse(intent, generated) ==
    /\ dataManager
    /\ lastOp' = [op |-> "smart", intent |-> intent, generated |-> generated,
                  response |-> GenerateSmartResponse(intent, generated)]
    /\ UNCHANGED <<now, ticks, isProcessing, rateVars, aiProviderEnabled, dataVars,
                   memVars, goalVars, histVars, turn, lastCall, accepted>>

\* applySafeResponseFramework(text), and applySafeResponseFramework of its
\* result, as the local path of processMessage applies it
FilterText(text) ==
    LET once == ApplySafeResponseFramework(text)
    IN /\ lastOp' = [op |-> "filter", text |-> text, once |-> once,
                     twice |-> ApplySafeResponseFramework(once)]
       /\ UNCHANGED <<now, ticks, isProcessing, rateVars, aiProviderEnabled, dataVars,
                      memVars, goalVars, histVars, turn, lastCall, accepted>>

\* init() loads the memory profile an earlier session saved:
\* loadUserMemory() merges the stored profile over the current one
LoadUserMemory(stored) ==
    /\ lastOp = NoOp
    /\ userAIMemory = DefaultMemory
    /\ userAIMemory' = [k \in DOMAIN userAIMemory \cup DOMAIN stored |->
                           IF k \in DOMAIN stored THEN stored[k] ELSE userAIMemory[k]]
    /\ currentLanguage' = userAIMemory'.languagePreference
    /\ lastOp' = [op |-> "load", stored |-> stored]
    /\ UNCHANGED <<now, ticks, isProcessing, rateVars, aiProviderEnabled, dataVars,
                   goalVars, histVars, turn, lastCall, accepted>>

\* a run of the periodic scan: checkFinancialAlerts() over the records of the
\* DataManager, whose history has the monthly incomes monthlyIncomes; the
\* checks read the totals only, the records here are fixed expenses
ScanAlerts(monthlyIncomes) ==
    /\ \E dm \in IF dataManager
                 THEN {d \in DataManagers(income, expenses) : d.fixedExpenses = expenses}
                 ELSE {NullContext} :
          LET context == IF dataManager THEN GetUserFinancialContext(dm) ELSE NullContext
              scan == CheckFinancialAlerts(context, monthlyIncomes, userAIMemory, now)
          IN /\ userAIMemory' = scan.memory
             /\ lastOp' = [op |-> "scan", context |-> context, alerts |-> scan.alerts,
                           monthlyIncomes |-> monthlyIncomes, at |-> now]
    /\ UNCHANGED <<now, ticks, isProcessing, rateVars, aiProviderEnabled, dataVars,
                   currentLanguage, goalVars, histVars, turn, lastCall, accepted>>

\* clearHistory() with its resetting the memory profile too
ClearHistoryCall_ResetsMemory ==
    /\ chatHistory' = <<>>
    /\ recentInteractions' = <<>>
    /\ userAIMemory' = DefaultMemory
    /\ lastOp' = [op |-> "clear", submitted |-> Len(accepted)]
    /\ UNCHANGED <<now, ticks, isProcessing, rateVars, aiProviderEnabled, dataVars,
                   currentLanguage, goalVars, turn, lastCall, accepted>>

\* clearHistory() called directly, observed: submitted is the number of
\* messages let in before the call
ClearHistoryCall ==
    /\ chatHistory' = <<>>
    /\ recentInteractions' = <<>>
    /\ lastOp' = [op |-> "clear", submitted |-> Len(accepted)]
    /\ UNCHANGED <<now, ticks, isProcessing, rateVars, aiProviderEnabled, dataVars,
                   memVars, goalVars, turn, lastCall, accepted>>

----------------------------------------------------------------------------
(* Inputs *)

SimpleMsg == Msg("simple", FALSE, "latin", FALSE, 20, 0, FALSE, "OTHER")
BlankMsg == Msg("blank", TRUE, "latin", FALSE, 0, 0, FALSE, "OTHER")
ComplexMsg == Msg("explain", FALSE, "latin", TRUE, 30, 0, FALSE, "OTHER")
LongMsg == Msg("long", FALSE, "latin", FALSE, 60, 2, FALSE, "OTHER")
HindiMsg == Msg("hindi", FALSE, "hi", FALSE, 20, 0, TRUE, "OTHER")
ThrowingMsg == [Msg("throwing", FALSE, "latin", TRUE, 30, 0, FALSE, "OTHER") EXCEPT !.throws = TRUE]

Messages == {SimpleMsg, BlankMsg, ComplexMsg, LongMsg, HindiMsg, ThrowingMsg}

CreateGoalMsg ==
    [Msg("create", FALSE, "latin", FALSE, 40, 0, FALSE, "CREATE_GOAL") EXCEPT
        !.name = <<"T", "r">>, !.targetAmount = 3, !.durationMonths = 3]
VagueGoalMsg == Msg("vague", FALSE, "latin", FALSE, 20, 0, FALSE, "CREATE_GOAL")
ProgressMsg == Msg("progress", FALSE, "latin", FALSE, 20, 0, FALSE, "GOAL_PROGRESS")
AchievabilityMsg == Msg("achievable", FALSE, "latin", FALSE, 20, 0, FALSE, "GOAL_ACHIEVABILITY")

GoalMessages == {CreateGoalMsg, VagueGoalMsg, ProgressMsg, AchievabilityMsg}

\* what the provider can answer with
ProviderTexts ==
    { <<>>,
      <<Run(40)>>,
      <<Run(40), Run(10)>>,
      <<Run(40), Run(11)>>,
      <<Run(40), Tok("crypto")>>,
      <<Tok("sp"), Run(50), Tok("sp")>>,
      <<Tok("You must"), Run(50), Tok("rupee")>> }

Outcomes ==
    {Outcome("ok", t) : t \in ProviderTexts}
    \cup {Outcome(k, <<>>) : k \in {"http_error", "malformed", "timeout", "network"}}

GoalNames == {<<>>, <<"T", "r">>, <<" ", "t", "R", " ">>, <<"R">>}
TargetAmounts == {0, MaxMoney}
Durations == {1, 3}
TopExpenseLists == {<<>>, <<1>>, <<MaxMoney>>}

\* incomes and expenses on both sides of every threshold of the health
\* classification
SnapshotIncomes == {0, 1, MaxMoney, 100, 100000}
SnapshotExpenses == {0, 1, 49, 50, 69, 70, 85, 86, 101, 60000, 120000}

\* "What if my income decreases by 20%?"
PercentIncomeQ == Question(<<[value |-> 20, unit |-> "%"]>>, {"income", "decrease"})
\* "What if rent increases by 50%?"
PercentRentQ == Question(<<[value |-> 50, unit |-> "%"]>>, {"rent", "increase"})
\* "What if my income reduces by 10?"
AmountIncomeQ == Question(<<[value |-> 10, unit |-> "none"]>>, {"income", "reduce"})
\* "What if my salary increases by 1k?"
ScaledIncomeQ == Question(<<[value |-> 1, unit |-> "k"]>>, {"salary", "increase"})
\* "With 0 bonus, what if my income decreases by 20%?"
ZeroThenPercentQ ==
    Question(<<[value |-> 0, unit |-> "none"], [value |-> 20, unit |-> "%"]>>,
             {"income", "decrease"})
\* "What if I reduce food by 1?" and "What if I add 2 to travel?"
ReduceFoodQ == Question(<<[value |-> 1, unit |-> "none"]>>, {"food", "reduce"})
AddTravelQ == Question(<<[value |-> 2, unit |-> "none"]>>, {"travel", "add"})
\* "What if my income increases?"
NoNumberQ == Question(<<>>, {"income", "increase"})

WhatIfQuestions == {PercentIncomeQ, PercentRentQ, AmountIncomeQ, ScaledIncomeQ,
                    ZeroThenPercentQ, ReduceFoodQ, AddTravelQ, NoNumberQ}

\* amounts of which the percentages of the questions are whole
SimulationIncomes == {0, 100, 1000}
SimulationExpenses == {0, 60, 100, 1200}

\* one question for every rule of detectIntent, in the order of the rules
RuleQuestions ==
    {Question(<<>>, {"how can i save", "save more", "how", "save", "can i"}),
     Question(<<>>, {"reduce", "expense"}),
     Question(<<>>, {"biggest", "expense"}),
     Question(<<>>, {"breakdown", "do"}),
     Question(<<>>, {"monthly report"}),
     Question(<<>>, {"saving", "rate"}),
     Question(<<>>, {"where", "spending"}),
     Question(<<>>, {"suggest", "budget"}),
     Question(<<>>, {"trend"}),
     Question(<<>>, {"overspend"}),
     Question(<<>>, {"saving", "analysis"}),
     Question(<<>>, {"risk", "expense"}),
     Question(<<>>, {"budget", "status"}),
     Question(<<>>, {"minimize", "cost"}),
     Question(<<>>, {"health score", "health", "score"}),
     Question(<<>>, {"forecast", "for", "saving"}),
     Question(<<>>, {"what should i", "what", "do"}),
     Question(<<>>, {"create", "goal"}),
     Question(<<>>, {"goal", "progress"}),
     Question(<<>>, {"can i", "reach", "goal"}),
     Question(<<>>, {"adjust", "goal"})}

\* questions no rule matches: "xyzxyz", "how to reduce it", "which one to
\* save", "what is a mutual fund", "i want to save"
UnrecognizedQ == Question(<<>>, {})
HowReduceQ == Question(<<>>, {"how", "reduce"})
WhichSaveQ == Question(<<>>, {"which", "save"})
WhatQ == Question(<<>>, {"what"})
SaveQ == Question(<<>>, {"save"})
UnmatchedQuestions == {UnrecognizedQ, HowReduceQ, WhichSaveQ, WhatQ, SaveQ}

\* the contexts extractConversationContext makes of the last six messages
ConvContexts == {[lastTopic |-> t] : t \in {"null", "savings", "expenses", "income"}}

\* intents handed to generateSmartResponse
SmartIntents ==
    {Intent(type, c) : type \in {"SAVE_MORE", "GOAL_PROGRESS", "GENERAL_ADVICE"},
                       c \in {50, 69, 70, 90}}

\* provider answers with the phrases the filters soften, in either letter
\* case, alone and followed by "ou must"
SafetyTexts ==
    { <<Run(60), Tok("you must"), Tok("sp"), Tok("guaranteed")>>,
      <<Run(60), Tok("You must"), Tok("sp"), Tok("GUARANTEED")>>,
      <<Run(60), Tok("guaranteed"), Tok("ou must")>>,
      <<Run(60), Tok("GUARANTEED"), Tok("ou must")>> }

SafetyOutcomes == {Outcome("ok", t) : t \in SafetyTexts} \cup {Outcome("http_error", <<>>)}

\* the phrases of the texts handed to the filter: plain runs, short and at
\* the length limit, and the phrases the filter rewrites
FilterVocabulary ==
    {Run(10), Run(MAX_RESPONSE_LENGTH - 8), Run(MAX_RESPONSE_LENGTH),
     Tok("sp"), Tok("."), Tok("crypto"), Tok("you must"), Tok("You must"),
     Tok("guaranteed"), Tok("GUARANTEED"), Tok("ou must"), Tok("investments")}

\* memory profiles an earlier session left in localStorage
StoredMemories ==
    {[languagePreference |-> "en-IN", lastAlertCheck |-> 0, activeAlerts |-> a] :
        a \in {<<"overspending">>, <<"low_savings", "income_instability">>}}

----------------------------------------------------------------------------
(* Specifications *)

InitEngine ==
    /\ now = 0
    /\ ticks = 0
    /\ isProcessing = FALSE
    /\ rateLimitCount = 0
    /\ rateLimitReset = 0
    /\ currentLanguage = "en-IN"
    /\ userAIMemory = DefaultMemory
    /\ financialGoals = <<>>
    /\ storedGoals = <<>>
    /\ chatHistory = <<>>
    /\ recentInteractions = <<>>
    /\ turn = NoTurn
    /\ lastCall = [m |-> "-", verdict |-> "none", route |-> "none", provided |-> <<>>,
                   response |-> NoResponse, local |-> NoResponse, lang |-> "en-IN"]
    /\ lastOp = NoOp
    /\ accepted = <<>>

\* The conversation: turns, the provider, the clock, clearHistory.
Init ==
    /\ InitEngine
    /\ aiProviderEnabled \in BOOLEAN
    /\ dataManager \in BOOLEAN
    /\ income \in {0, 2}
    /\ expenses = 1

Next ==
    \/ \E m \in Messages : Len(accepted) < MaxTurns /\ ProcessMessage(m)
    \/ \E o \in Outcomes : ProviderReturns(o)
    \/ ClearHistory
    \/ Tick(PROVIDER_TIMEOUT)

Spec == Init /\ [][Next]_vars

\* The turns of a conversation with the provider configured: a simple
\* question, one for the provider, one whose pipeline throws; the provider
\* answering, failing or running into its timeout.
InitTurns ==
    /\ InitEngine
    /\ aiProviderEnabled = TRUE
    /\ dataManager \in BOOLEAN
    /\ income = 2
    /\ expenses = 1

TurnOutcomes ==
    {Outcome("ok", <<Run(40), Run(11)>>), Outcome("http_error", <<>>), Outcome("timeout", <<>>)}

NextTurns ==
    \/ \E m \in {SimpleMsg, ComplexMsg, ThrowingMsg} :
          Len(accepted) < MaxTurns /\ ProcessMessage(m)
    \/ \E o \in TurnOutcomes : ProviderReturns(o)
    \/ Tick(PROVIDER_TIMEOUT)

SpecTurns == InitTurns /\ [][NextTurns]_vars

\* the ways the fetch ends without an answer
FailedOutcomes == {o \in TurnOutcomes : o.kind # "ok"}

\* the fetch never hangs: if no answer arrives, a transport error or the
\* abort signal of its 10 second timeout ends it
FairSpec == SpecTurns /\ WF_vars(\E o \in FailedOutcomes : ProviderReturns(o))

\* The rate limiter: messages answered locally, the clock.
InitRate ==
    /\ InitEngine
    /\ aiProviderEnabled = FALSE
    /\ dataManager = TRUE
    /\ income = 2
    /\ expenses = 1

NextRate ==
    \/ \E m \in {SimpleMsg, BlankMsg} : ProcessMessage(m)
    \/ \E d \in {1, RATE_WINDOW} : Tick(d)

SpecRate == InitRate /\ [][NextRate]_vars

\* The goal collection: creations under names that differ in case and
\* blanks, recomputations, changes of the savings.
InitGoals ==
    /\ InitEngine
    /\ aiProviderEnabled = FALSE
    /\ dataManager = TRUE
    /\ income = 0
    /\ expenses = 0

\* the collection holds at most n goals after the creation
Fits(name, t, d, n) == Len(CreateFinancialGoal(financialGoals, name, t, d, now).goals) <= n

NextGoals ==
    \/ \E name \in GoalNames, t \in TargetAmounts :
          Fits(name, t, 3, MaxGoals) /\ CreateGoal(name, t, 3)
    \/ \E i \in 1..MaxGoals : RecomputeGoal(i)
    \/ EnhanceContextWithMemory
    \/ \E m \in {CreateGoalMsg, VagueGoalMsg} :
          Fits(m.name, m.targetAmount, m.durationMonths, MaxGoals) /\ GenerateGoalResponse(m)
    \/ \E inc \in {0, MaxMoney} : SetFinance(inc, 0)

SpecGoals == InitGoals /\ [][NextGoals]_vars

\* The progress of a goal: its recomputation from every call site, as the
\* records change and the months pass.
NextProgress ==
    \/ Fits(<<"T", "r">>, MaxMoney, 3, MaxTracked) /\ CreateGoal(<<"T", "r">>, MaxMoney, 3)
    \/ \E i \in 1..MaxTracked : RecomputeGoal(i)
    \/ EnhanceContextWithMemory
    \/ \E m \in {ProgressMsg, AchievabilityMsg} : GenerateGoalResponse(m)
    \/ \E f \in {<<0, 0>>, <<0, 1>>, <<1, 0>>, <<MaxMoney, 0>>} : SetFinance(f[1], f[2])
    \/ MonthPasses

SpecProgress == InitGoals /\ [][NextProgress]_vars

\* The analysis of a goal against the records.
NextAnalysis ==
    \/ \E t \in {1, MaxMoney}, d \in Durations :
          Fits(<<"T", "r">>, t, d, MaxTracked) /\ CreateGoal(<<"T", "r">>, t, d)
    \/ \E i \in 1..MaxTracked, top \in TopExpenseLists : AnalyzeGoal(i, top)
    \/ \E inc \in 0..MaxMoney, exp \in 0..1 : SetFinance(inc, exp)

SpecAnalysis == InitGoals /\ [][NextAnalysis]_vars

\* The snapshot builder over records of every health class.
NextSnapshot ==
    \/ \E inc \in SnapshotIncomes, exp \in SnapshotExpenses : SetFinance(inc, exp)
    \/ BuildContext

SpecSnapshot == InitGoals /\ [][NextSnapshot]_vars

\* What-if simulations of the records.
NextSimulation ==
    \/ \E inc \in SimulationIncomes, exp \in SimulationExpenses : SetFinance(inc, exp)
    \/ \E question \in WhatIfQuestions : WhatIfSimulation(question)

SpecSimulation == InitGoals /\ [][NextSimulation]_vars

\* The classification of a question and the choice of its answer.
NextIntent ==
    \/ \E question \in RuleQuestions \cup UnmatchedQuestions, convContext \in ConvContexts,
          generated \in {"text", "null"} : Respond(question, convContext, generated)
    \/ \E intent \in SmartIntents, generated \in {"text", "null"} :
          SmartResponse(intent, generated)

SpecIntent == InitGoals /\ [][NextIntent]_vars

\* The turns of a conversation whose provider answers in absolute terms.
NextSafety ==
    \/ \E m \in {SimpleMsg, ComplexMsg, HindiMsg} :
          Len(accepted) < MaxTurns /\ ProcessMessage(m)
    \/ \E o \in SafetyOutcomes : ProviderReturns(o)
    \/ ClearHistory

SpecSafety == InitTurns /\ [][NextSafety]_vars

\* The Safety Filter applied to the texts of up to MaxTextLen phrases.
NextFilter ==
    \E text \in UNION {[1..n -> FilterVocabulary] : n \in 0..MaxTextLen} : FilterText(text)

SpecFilter == InitGoals /\ [][NextFilter]_vars

\* The history windows: enough answered turns to fill both, the clock that
\* reopens the rate limiter's window, clearHistory.
NextWindows ==
    \/ Len(accepted) < MaxWindowTurns /\ ProcessMessage(SimpleMsg)
    \/ \E d \in {1, RATE_WINDOW} : Tick(d)
    \/ ClearHistory

SpecWindows == InitRate /\ [][NextWindows]_vars

\* The memory profile: loaded at the start and written by the alert scan
\* every five minutes, over records on both sides of the thresholds of the
\* checks and a history whose monthly incomes are none, one month, steady,
\* or varying by more than 30%.
InitAlerts ==
    /\ InitEngine
    /\ aiProviderEnabled = FALSE
    /\ dataManager \in BOOLEAN
    /\ income = 0
    /\ expenses = 0

NextAlerts ==
    \/ \E stored \in StoredMemories : LoadUserMemory(stored)
    \/ \E inc \in {0, MaxMoney, 100}, exp \in {0, 50, 86, 90, 91, 101} : SetFinance(inc, exp)
    \/ \E monthlyIncomes \in {<<>>, <<100>>, <<100, 100>>, <<100, 10>>, <<10, 100, 100, 90>>} :
          ScanAlerts(monthlyIncomes)
    \/ Tick(ALERT_INTERVAL)

SpecAlerts == InitAlerts /\ [][NextAlerts]_vars

\* Clearing the history: a conversation with the provider configured, a
\* loaded and scanned memory profile, a goal, and clearHistory at any point,
\* also while a turn is suspended at the provider.
InitClear ==
    /\ InitEngine
    /\ aiProviderEnabled = TRUE
    /\ dataManager = TRUE
    /\ income = 2
    /\ expenses = 1

NextClear ==
    \/ \E stored \in StoredMemories : LoadUserMemory(stored)
    \/ ScanAlerts(<<100, 10>>)
    \/ Fits(<<"T", "r">>, MaxMoney, 3, MaxTracked) /\ CreateGoal(<<"T", "r">>, MaxMoney, 3)
    \/ \E m \in {SimpleMsg, ComplexMsg, HindiMsg} :
          Len(accepted) < MaxTurns /\ ProcessMessage(m)
    \/ \E o \in {Outcome("ok", <<Run(40), Run(11)>>), Outcome("http_error", <<>>)} :
          ProviderReturns(o)
    \/ ClearHistoryCall

SpecClear == InitClear /\ [][NextClear]_vars

\* Rejected messages: a conversation without a pause, so that the limiter
\* refuses after ten turns, with questions that wait for the provider, a
\* loaded memory profile and a goal.
NextReject ==
    \/ \E stored \in StoredMemories : LoadUserMemory(stored)
    \/ Fits(<<"T", "r">>, MaxMoney, 3, MaxTracked) /\ CreateGoal(<<"T", "r">>, MaxMoney, 3)
    \/ \E m \in {SimpleMsg, BlankMsg, ComplexMsg} : ProcessMessage(m)
    \/ ProviderReturns(Outcome("http_error", <<>>))

SpecReject == InitClear /\ [][NextReject]_vars

----------------------------------------------------------------------------
(* Properties *)

\* what processMessage makes of an answer before it returns it
AsDelivered(response, lang) ==
    [TranslateResponse(response, lang) EXCEPT !.toks = ApplySafeResponseFramework(@)]

\* C1: while an accepted processMessage call is suspended at the provider,
\* isProcessing is set, and every further call with non-empty text returns
\* the 'still processing' message, runs nothing of the pipeline and leaves
\* isProcessing and the suspended turn as they are.
C1_OneTurnInFlight ==
    /\ [](turn.pc = "awaiting" => isProcessing)
    /\ [][\A m \in Messages :
            (turn.pc = "awaiting" /\ ~m.blank /\ ProcessMessage(m)) =>
                /\ lastCall'.response = StillProcessing
                /\ isProcessing'
                /\ turn' = turn
                /\ UNCHANGED <<rateVars, memVars, goalVars, histVars, accepted>>]_vars

C1_Witness == turn.pc = "awaiting" /\ lastCall.verdict = "busy"

\* C2: of the non-empty messages of a session submitted one after another,
\* the first ten are accepted; the one after them is refused with the
\* throttling message and not processed while it comes within 60 seconds of
\* the first, and accepted once it comes later than that.
C2_EleventhRejected ==
    [][(ProcessMessage(SimpleMsg) /\ Len(accepted) <= RATE_LIMIT_MAX) =>
          IF Len(accepted) = RATE_LIMIT_MAX /\ now <= accepted[1] + RATE_WINDOW
          THEN /\ lastCall'.response = Throttled
               /\ UNCHANGED <<accepted, goalVars, histVars, memVars>>
          ELSE /\ accepted' = Append(accepted, now)
               /\ lastCall'.verdict = "answered"]_vars

\* C3 as claimed: no eleven accepted messages lie within 60 seconds.
C3_SlidingWindow ==
    \A i \in DOMAIN accepted :
        i + RATE_LIMIT_MAX \in DOMAIN accepted =>
            accepted[i + RATE_LIMIT_MAX] - accepted[i] >= RATE_WINDOW

\* C3 amended: the window is fixed, opened by the first check after the
\* previous one expired: the 60 seconds that end at rateLimitReset hold at
\* most 10 accepted messages, and any 60 seconds hold at most 20.
C3_FixedWindow ==
    /\ Cardinality({i \in DOMAIN accepted :
            accepted[i] >= rateLimitReset - RATE_WINDOW /\ accepted[i] <= rateLimitReset})
          <= RATE_LIMIT_MAX
    /\ \A i \in DOMAIN accepted :
          i + 2 * RATE_LIMIT_MAX \in DOMAIN accepted =>
              accepted[i + 2 * RATE_LIMIT_MAX] - accepted[i] > RATE_WINDOW

C3_Witness ==
    /\ accepted # <<>> /\ accepted[1] > 0
    /\ \E i \in DOMAIN accepted :
          /\ i + RATE_LIMIT_MAX \in DOMAIN accepted
          /\ accepted[i + RATE_LIMIT_MAX] - accepted[i] < RATE_WINDOW
    /\ rateLimitCount = RATE_LIMIT_MAX
    /\ lastCall.verdict = "throttled"

\* C4: whenever no turn is suspended isProcessing is false, whichever way
\* the turns before ended, and a turn that set it always comes to its end.
C4_TurnsComplete ==
    /\ [](turn.pc = "idle" => ~isProcessing)
    /\ (isProcessing ~> ~isProcessing)

C4_Witness ==
    /\ lastCall.verdict = "answered"
    /\ lastCall.route = "timeout"
    /\ ~isProcessing
    /\ Len(accepted) = 2

ProviderFailed(call) ==
    call.route \in {"disabled", "timeout", "http_error", "malformed", "network"}

C6_UniqueOpenNames ==
    \A i, j \in DOMAIN financialGoals :
        (i # j /\ IsOpen(financialGoals[i]) /\ IsOpen(financialGoals[j])) =>
            ToLowerCase(financialGoals[i].name) # ToLowerCase(financialGoals[j].name)

\* C7: createFinancialGoal under a name that, trimmed and letter case
\* ignored, is the name of an active or behind goal returns null and leaves
\* the collection, every field of every goal, as it was.
C7_DuplicateRejected ==
    [][\A name \in GoalNames, t \in TargetAmounts :
          (/\ CreateGoal(name, t, 3)
           /\ \E i \in DOMAIN financialGoals :
                 /\ IsOpen(financialGoals[i])
                 /\ ToLowerCase(financialGoals[i].name) = ToLowerCase(TrimName(name)))
          => (lastOp'.goal = NoGoal /\ UNCHANGED goalVars)]_vars

C7_Witness ==
    /\ lastOp.op = "create"
    /\ lastOp.goal = NoGoal
    /\ lastOp.targetAmount > 0
    /\ \E i \in DOMAIN financialGoals :
          /\ IsOpen(financialGoals[i])
          /\ financialGoals[i].name # TrimName(lastOp.name)
          /\ ToLowerCase(financialGoals[i].name) = ToLowerCase(TrimName(lastOp.name))

\* C8: updateGoalProgress leaves amountSaved = min(savings, targetAmount),
\* completionPercentage = min(100, amountSaved / targetAmount * 100) and the
\* status completed from 100 percent on, else behind below
\* monthlyRequirement * max(1, monthsElapsed) * 0.8, else active.
C8_ProgressFormula ==
    lastOp.op = "update" =>
        LET g == lastOp.goal
            savings == lastOp.inc - lastOp.exp
            floorMonths == IF lastOp.months > 1 THEN lastOp.months ELSE 1
        IN /\ g.amountSaved = IF savings < g.targetAmount THEN savings ELSE g.targetAmount
           /\ g.completionPercentage =
                 IF g.amountSaved * 100 < 100 * g.targetAmount
                 THEN g.amountSaved * 100 ELSE 100 * g.targetAmount
           /\ g.status =
                 IF g.completionPercentage >= 100 * g.targetAmount THEN "completed"
                 ELSE IF 1000 * g.amountSaved < 8 * g.monthlyRequirement * floorMonths
                      THEN "behind"
                      ELSE "active"

C8_Witness ==
    /\ lastOp.op = "update"
    /\ lastOp.months = 0
    /\ lastOp.goal.status = "behind"
    /\ lastOp.goal.amountSaved < 0

\* C9 as claimed: a goal recomputed again against the snapshot of its last
\* recomputation is in the state that recomputation left it in, whatever
\* happened in between.
C9_PureOfGoalAndSnapshot ==
    [][\A i \in 1..MaxTracked :
          (/\ RecomputeGoal(i)
           /\ lastOp.op = "update" /\ lastOp.index = i
           /\ lastOp.inc = income /\ lastOp.exp = expenses)
          => financialGoals'[i] = lastOp.goal]_vars

\* C9 amended: the recomputation also reads the clock.  A goal recomputed
\* again against the snapshot and with the months elapsed of its last
\* recomputation is in the state that recomputation left it in, whatever
\* happened in between, and nothing but that goal has changed.
C9_PureOfGoalSnapshotAndMonths ==
    [][\A i \in 1..MaxTracked :
          (/\ RecomputeGoal(i)
           /\ lastOp.op = "update" /\ lastOp.index = i
           /\ lastOp.inc = income /\ lastOp.exp = expenses
           /\ lastOp.months = MonthsElapsed(financialGoals[i], now))
          => /\ financialGoals'[i] = lastOp.goal
             /\ \A j \in DOMAIN financialGoals : j # i => financialGoals'[j] = financialGoals[j]
             /\ UNCHANGED <<storedGoals, dataVars, memVars, histVars, rateVars, isProcessing>>]_vars

C9_Witness ==
    /\ lastOp.op = "update"
    /\ lastOp.inc = income /\ lastOp.exp = expenses
    /\ lastOp.months = MonthsElapsed(financialGoals[lastOp.index], now)
    /\ lastOp.goal.amountSaved > 0
    /\ financialGoals[lastOp.index] # lastOp.goal

\* C10: analyzeGoalAchievability answers not achievable when the income is 0
\* or monthlyRequirement exceeds it; otherwise achievable with a reduction
\* of monthlyRequirement - (income - expenses) when monthlyRequirement
\* exceeds income - expenses; otherwise achievable without reduction.
C10_ThreeOutcomes ==
    lastOp.op = "analyze" =>
        LET a == lastOp.analysis
            required == lastOp.goal.monthlyRequirement
            spare == 100 * (lastOp.inc - lastOp.exp)
        IN IF lastOp.inc = 0 \/ required > 100 * lastOp.inc
           THEN ~a.achievable /\ ~a.requiresReduction
           ELSE IF required > spare
           THEN a.achievable /\ a.requiresReduction /\ a.shortfall = required - spare
           ELSE a.achievable /\ ~a.requiresReduction /\ a.shortfall = 0

C10_Witness ==
    /\ lastOp.op = "analyze"
    /\ lastOp.analysis.requiresReduction
    /\ lastOp.analysis.shortfall > 0
    /\ lastOp.exp > 0

\* C11: for every income and expenses, the health classification of the
\* snapshot builder follows the precedence: expenses > income gives 'Needs
\* Attention'; else expense ratio > 85% gives 'Needs Attention'; else ratio
\* < 50% and savings rate > 20% gives 'Healthy'; else ratio < 70% and savings
\* rate > 10% gives 'Moderate'; otherwise 'Needs Attention'.  The result is
\* always one of these three values.
C11_HealthPrecedence ==
    lastOp.op = "build" =>
        LET c == lastOp.context
            i == c.income
            e == c.expenses
            ratioOver(k) == i > 0 /\ 100 * e > k * i
            ratioUnder(k) == i <= 0 \/ 100 * e < k * i
            rateOver(k) == i > 0 /\ 100 * (i - e) > k * i
        IN /\ c.financialHealth \in {"Healthy", "Moderate", "Needs Attention"}
           /\ c.financialHealth =
                 IF e > i THEN "Needs Attention"
                 ELSE IF ratioOver(85) THEN "Needs Attention"
                 ELSE IF ratioUnder(50) /\ rateOver(20) THEN "Healthy"
                 ELSE IF ratioUnder(70) /\ rateOver(10) THEN "Moderate"
                 ELSE "Needs Attention"

\* a snapshot on a threshold: a ratio of exactly 70% is not 'Moderate'
C11_Witness ==
    /\ lastOp.op = "build"
    /\ lastOp.context.income = 100
    /\ lastOp.context.expenses = 70
    /\ lastOp.context.financialHealth = "Needs Attention"

\* C12 as stated: a snapshot with income = 100000 and expenses = 60000
\* (expense ratio 60%, savings rate 40%) is classified 'Healthy'.
C12_ClassifiedHealthy ==
    (lastOp.op = "build" /\ lastOp.context.income = 100000
                         /\ lastOp.context.expenses = 60000)
        => lastOp.context.financialHealth = "Healthy"

\* C12, amended: a snapshot with income = 100000 and expenses = 60000
\* (expense ratio 60%, savings rate 40%) is classified 'Moderate'.
C12_ClassifiedModerate ==
    (lastOp.op = "build" /\ lastOp.context.income = 100000
                         /\ lastOp.context.expenses = 60000)
        => /\ lastOp.context.financialHealth = "Moderate"
           /\ lastOp.context.expenseRatio = 600
           /\ lastOp.context.savingsRate = 400

C12_Witness ==
    /\ lastOp.op = "build"
    /\ lastOp.context.income = 100000
    /\ lastOp.context.expenses = 60000
    /\ lastOp.context.healthStatus = "MODERATE"

\* C13: in every snapshot the engine produces, whether built by
\* buildFinancialContext or returned by simulateScenario, savingsRate and
\* expenseRatio are both derived from that snapshot's own income and
\* expenses: both 0 when income = 0, else expenses / income * 100 and
\* (income - expenses) / income * 100 (to the tenth that toFixed(1) keeps);
\* no snapshot carries a ratio computed from a different income/expense pair.
C13_RatiosFromOwnPair ==
    LET off(tenths, amount, inc) ==
            IF tenths * inc >= 1000 * amount THEN tenths * inc - 1000 * amount
            ELSE 1000 * amount - tenths * inc
        RatiosOfOwnPair(c) ==
            IF c.income > 0
            THEN /\ 2 * off(c.expenseRatio, c.expenses, c.income) <= c.income
                 /\ 2 * off(c.savingsRate, c.income - c.expenses, c.income) <= c.income
            ELSE c.expenseRatio = 0 /\ c.savingsRate = 0
    IN lastOp.op = "whatif" =>
          /\ RatiosOfOwnPair(lastOp.context)
          /\ lastOp.call.simulated # NullSimulation
                => RatiosOfOwnPair(lastOp.call.simulated)

\* C14: simulateScenario never changes state outside its return value: the
\* base context (nested fields included), the goal collection, the chat
\* history, the memory profile and the persisted storage are the same after
\* the call as before.
C14_SimulationIsIsolated ==
    [][(lastOp' # lastOp /\ lastOp'.op = "whatif")
          => /\ lastOp'.call.baseContext = lastOp'.context
             /\ UNCHANGED <<dataVars, goalVars, histVars, memVars>>]_vars

\* a simulation that changed the income and the savings of its copy
C14_Witness ==
    /\ lastOp.op = "whatif"
    /\ lastOp.call.simulated # NullSimulation
    /\ lastOp.call.simulated.income # lastOp.context.income
    /\ lastOp.call.simulated.savings # lastOp.context.savings
    /\ lastOp.call.baseContext = lastOp.context

\* C15: for a what-if question stated as a percentage ('income decreases by
\* 20%'), the simulated value of the targeted field is its current value
\* changed by that percentage of its current value, through
\* extractSimulationParams then simulateScenario.
C15_PercentageOfCurrent ==
    (/\ lastOp.op = "whatif"
     /\ Len(lastOp.question.numbers) = 1
     /\ lastOp.question.numbers[1].unit = "%")
        => LET p == lastOp.question.numbers[1].value
               factor == IF "increase" \in lastOp.question.words THEN 100 + p ELSE 100 - p
               sim == lastOp.call.simulated
           IN /\ sim # NullSimulation
              /\ "income" \in lastOp.question.words
                    => 100 * sim.income = factor * lastOp.context.income
              /\ "rent" \in lastOp.question.words
                    => 100 * sim.expenses = factor * lastOp.context.expenses

\* C16: for a category scenario on a base context as built by
\* getUserFinancialContext (a category with current amount c > 0, changed by
\* d), the simulated snapshot's category amount is c + d on increase or
\* max(0, c - d) on decrease, its total expenses change by the same category
\* delta, and its savings equal simulated income minus simulated expenses.
C16_CategoryDelta ==
    (/\ lastOp.op = "whatif"
     /\ lastOp.params # NullParams
     /\ lastOp.params.type = "category_change"
     /\ lastOp.context.flexibleData[CategoryKey(lastOp.params.category)] > 0)
        => LET key == CategoryKey(lastOp.params.category)
               c == lastOp.context.flexibleData[key]
               d == lastOp.params.amount
               after == IF lastOp.params.direction = "increase" THEN c + d
                        ELSE Max(0, c - d)
               sim == lastOp.call.simulated
           IN /\ sim.flexibleData[key] = after
              /\ sim.expenses = lastOp.context.expenses + (after - c)
              /\ sim.savings = sim.income - sim.expenses

\* C17: for every parsable what-if question and every context with data,
\* handleWhatIfSimulation returns the simulation result: the simulated
\* income, expenses and savings with signed deltas equal to simulated minus
\* original for each of the three; it does not return the generic failure
\* message.
C17_ReturnsSimulationResult ==
    (lastOp.op = "whatif" /\ lastOp.params # NullParams)
        => /\ lastOp.response.kind = "results"
           /\ lastOp.response.income = lastOp.call.simulated.income
           /\ lastOp.response.expenses = lastOp.call.simulated.expenses
           /\ lastOp.response.savings = lastOp.call.simulated.savings
           /\ lastOp.response.incomeChange = lastOp.response.income - lastOp.context.income
           /\ lastOp.response.expenseChange
                 = lastOp.response.expenses - lastOp.context.expenses
           /\ lastOp.response.savingsChange
                 = lastOp.response.savings - lastOp.context.savings

\* C18: an intent-specific generator is used to answer a turn only when the
\* classified intent's confidence is >= 0.7; with confidence below 0.7 the
\* answer always comes from the generic keyword fallback chain.
C18_GeneratorNeedsConfidence ==
    /\ lastOp.op = "respond" =>
          /\ lastOp.answer.source = "intent" => lastOp.answer.intent.confidence >= 70
          /\ lastOp.answer.intent.confidence < 70 => lastOp.answer.source = "keyword"
    /\ lastOp.op = "smart" =>
          (lastOp.intent.confidence < 70 => lastOp.response = "null")

\* a generator with a text to give, refused for a confidence of 0.69
C18_Witness ==
    /\ lastOp.op = "smart"
    /\ lastOp.intent = Intent("SAVE_MORE", 69)
    /\ lastOp.generated = "text"
    /\ lastOp.response = "null"

\* C19 as stated: for every question that matches none of the classifier's
\* pattern rules, and for every short-term conversation context, detectIntent
\* returns GENERAL_ADVICE with confidence exactly 0.5.
C19_GeneralAdviceAtHalf ==
    (lastOp.op = "respond" /\ lastOp.question \in UnmatchedQuestions)
        => lastOp.answer.intent = Intent("GENERAL_ADVICE", 50)

\* C19, amended: for every question that matches none of the classifier's
\* pattern rules, and for every short-term conversation context, detectIntent
\* returns GENERAL_ADVICE; its confidence is exactly 0.5, except that it is
\* 0.7 when the context's last topic is savings and the question contains
\* 'what', 'how' or 'which' and also 'save' or 'reduce'.
C19_GeneralAdviceBoosted ==
    (lastOp.op = "respond" /\ lastOp.question \in UnmatchedQuestions)
        => LET words == lastOp.question.words
               followUp == /\ lastOp.convContext.lastTopic = "savings"
                           /\ words \cap {"what", "how", "which"} # {}
                           /\ words \cap {"save", "reduce"} # {}
           IN /\ lastOp.answer.intent.type = "GENERAL_ADVICE"
              /\ lastOp.answer.intent.confidence = IF followUp THEN 70 ELSE 50

\* a follow-up about savings, answered by the keyword chain all the same
C19_Witness ==
    /\ lastOp.op = "respond"
    /\ lastOp.question = HowReduceQ
    /\ lastOp.convContext.lastTopic = "savings"
    /\ lastOp.answer.intent = Intent("GENERAL_ADVICE", 70)
    /\ lastOp.answer.source = "keyword"

\* C20: every response text returned for a processed turn, whether generated
\* locally or taken from the external provider, has passed through the
\* Safety Filter and contains no occurrence, in any letter case, of 'you
\* must' or 'guaranteed'.
C20_NoYouMustNoGuaranteed ==
    lastCall.verdict = "answered" =>
        LET toks == lastCall.response.toks
        IN \A i \in DOMAIN toks :
              /\ toks[i].w \notin {"you must", "You must", "guaranteed", "GUARANTEED"}
              /\ ~(toks[i].w = "ou must" /\ i > 1 /\ EndsInY(toks[i - 1]))


\* C21: the Safety Filter bounds the length of its output: for every input
\* text, the text returned by applySafeResponseFramework is never longer than
\* the maximum length, 2000 characters plus the three-character '...' marker.
C21_OutputWithinLimit ==
    lastOp.op = "filter" => TextLen(lastOp.once) <= MAX_RESPONSE_LENGTH + 3


\* C22: in every state reached by any sequence of processMessage and
\* clearHistory calls, the long history window holds at most 20 entries and
\* the short contextual window at most 5 interactions, and in both the
\* retained entries are the most recent ones in submission order: the
\* interactions of the short window, and the user/assistant pairs of the long
\* one, are those of the last messages let in, in their order.
C22_WindowsBoundedAndRecent ==
    LET Times(s) == [i \in DOMAIN s |-> s[i].timestamp]
        IsSuffix(s, full) ==
            /\ Len(s) <= Len(full)
            /\ s = SubSeq(full, Len(full) - Len(s) + 1, Len(full))
        pairs == Len(chatHistory) \div 2
    IN /\ Len(chatHistory) <= HISTORY_LIMIT
       /\ Len(recentInteractions) <= maxInteractionMemory
       /\ IsSuffix(Times(recentInteractions), accepted)
       /\ Len(chatHistory) = 2 * pairs
       /\ \A i \in 1..pairs :
             /\ chatHistory[2 * i - 1].role = "user"
             /\ chatHistory[2 * i].role = "assistant"
             /\ chatHistory[2 * i].timestamp = chatHistory[2 * i - 1].timestamp
       /\ IsSuffix([i \in 1..pairs |-> chatHistory[2 * i - 1].timestamp], accepted)

\* both windows are full and have dropped their oldest entries: eleven
\* messages were let in at different times since the last clear
C22_Witness ==
    /\ Len(chatHistory) = HISTORY_LIMIT
    /\ Len(recentInteractions) = maxInteractionMemory
    /\ Len(accepted) > HISTORY_LIMIT \div 2
    /\ accepted[1] < chatHistory[1].timestamp
    /\ recentInteractions[1].timestamp < recentInteractions[maxInteractionMemory].timestamp


\* C24: after every run of the periodic alert scan, the memory profile's
\* current-alerts slot holds exactly the alerts that this run computed from
\* the live data, at most one per alert type and at most four: alerts of
\* earlier runs never remain in the slot, also when the run finds no data.
C24_SlotHoldsThisRun ==
    lastOp.op = "scan" =>
        /\ userAIMemory.activeAlerts = lastOp.alerts
        /\ Len(lastOp.alerts) <= 4
        /\ \A i, j \in DOMAIN lastOp.alerts :
              lastOp.alerts[i] = lastOp.alerts[j] => i = j

\* C25: the alert scan raises the low-savings alert exactly when savings are
\* positive and the savings rate computed from the live income and expenses
\* is below 10%; with a savings rate of 10% or more it raises none.
C25_LowSavingsBelowTenPercent ==
    (lastOp.op = "scan" /\ lastOp.context # NullContext) =>
        LET c == lastOp.context
        IN (\E i \in DOMAIN lastOp.alerts : lastOp.alerts[i] = "low_savings")
              <=> (c.savings > 0 /\ c.income > 0 /\ 100 * c.savings < 10 * c.income)


\* C23: clearHistory empties both the long history window and the short
\* contextual window and leaves the memory profile (preferences, last scan
\* time, current alerts) and the goal collection exactly as they were.
C23_ClearKeepsProfileAndGoals ==
    [][ClearHistoryCall =>
          /\ chatHistory' = <<>>
          /\ recentInteractions' = <<>>
          /\ userAIMemory' = userAIMemory
          /\ currentLanguage' = currentLanguage
          /\ financialGoals' = financialGoals
          /\ storedGoals' = storedGoals]_vars

\* the history of an answered turn was cleared; the profile still has the
\* language preference the turn set, the scan's time and alerts, and the
\* goal is still there
C23_Witness ==
    /\ lastOp.op = "clear"
    /\ lastCall.verdict = "answered"
    /\ chatHistory = <<>>
    /\ recentInteractions = <<>>
    /\ userAIMemory.languagePreference = "hi-IN"
    /\ userAIMemory.lastAlertCheck # NeverChecked
    /\ userAIMemory.activeAlerts # <<>>
    /\ Len(financialGoals) = 1
    /\ storedGoals = financialGoals


\* C30: after clearHistory has been called, the long and the short history
\* window contain only interactions of messages submitted after the clear,
\* also when a turn was suspended at the external provider at the moment of
\* the clear and completes afterwards: the windows hold no more interactions
\* than messages were let in since the call.
C30_OnlyLaterInteractions ==
    lastOp.op = "clear" =>
        /\ Len(recentInteractions) <= Len(accepted) - lastOp.submitted
        /\ Len(chatHistory) <= 2 * (Len(accepted) - lastOp.submitted)


\* C26: a message that is rejected (empty text, a turn already in flight, or
\* rate limit exceeded) is not processed: it leaves the history windows, the
\* goal collection and the memory profile unchanged, and a message rejected
\* because a turn is in flight or because the limit is exceeded does not
\* increase the rate-limit count, so only accepted messages consume the
\* quota of 10.
C26_RejectedLeavesNoTrace ==
    [][\A m \in {SimpleMsg, BlankMsg, ComplexMsg} :
          (/\ ProcessMessage(m)
           /\ Admission(m, isProcessing, rateLimitCount, rateLimitReset, now).verdict
                  \in {"empty", "busy", "throttled"}) =>
              /\ lastCall'.response \in {EmptyPrompt, StillProcessing, Throttled}
              /\ UNCHANGED <<histVars, goalVars, memVars, turn, isProcessing>>
              /\ lastCall'.verdict \in {"busy", "throttled"} =>
                    /\ rateLimitCount' <= rateLimitCount
                    /\ rateLimitCount' <= RATE_LIMIT_MAX
                    /\ accepted' = accepted]_vars

\* the limiter refused the eleventh message of a conversation that has a
\* goal, a loaded profile and full windows
C26_Witness ==
    /\ lastCall.verdict = "throttled"
    /\ rateLimitCount = RATE_LIMIT_MAX
    /\ Len(accepted) = RATE_LIMIT_MAX
    /\ Len(chatHistory) = HISTORY_LIMIT
    /\ Len(financialGoals) = 1
    /\ userAIMemory.activeAlerts # <<>>


\* C27: completed is a terminal goal status: once a goal's status has become
\* completed, it remains completed under every later progress recomputation,
\* whatever the user's later savings are.
C27_CompletedIsTerminal ==
    [][\A i \in DOMAIN financialGoals :
          (financialGoals[i].status = "completed" /\ i \in DOMAIN financialGoals')
              => financialGoals'[i].status = "completed"]_vars


\* C28: every intent tag that the dispatcher has a generator or branch for
\* (including WHAT_IF_SIMULATION, GOAL_FEASIBILITY_CHECK, RISK_DETECTION,
\* PERSONALIZED_ADVICE, COST_REDUCTION and FINANCIAL_HEALTH_SCORE) is
\* reachable: for each tag there is at least one question, in some
\* conversation context, for which detectIntent returns that tag.  The
\* questions are those the classifier is asked: one for every rule of
\* detectIntent, and the ones no rule matches.
C28_EveryDispatchedTagReachable ==
    lastOp.op = "respond" =>
        \A type \in GeneratorTypes :
            \E question \in RuleQuestions \cup UnmatchedQuestions,
               convContext \in ConvContexts :
                DetectIntent(question, convContext).type = type


\* C29: the Safety Filter is idempotent: for every text, applying
\* applySafeResponseFramework to its own output returns that output
\* unchanged, so the local path, which filters a response once in
\* generateResponse and again in processMessage, returns the same text as a
\* single filtering.
C29_FilterIsIdempotent ==
    lastOp.op = "filter" => lastOp.twice = lastOp.once

====
